---- MODULE Spec2Model ----
(***************************************************************************)
(* Verification model of the TON API incremental indexer.                  *)
(*                                                                         *)
(*   Spec        the ingestion orchestrator (IndexerService) together with *)
(*               the cursor file and the contract store                    *)
(*   SpecCrash   Spec with the process killed at an arbitrary point        *)
(*   SpecRetry   the retry loops of the two network clients (RestClient    *)
(*               and GraphQLClient) with their handleError policies        *)
(*   SpecLevels  calculateOptimalDirectoryLevels (directoryStructure)      *)
(*   SpecLayout  getDirectoryPath and getFilePath (directoryStructure)     *)
(*   SpecStore   contractFileExists and saveContractData (fileUtils) as    *)
(*               the IndexerService calls them                             *)
(*   SpecStoreAt the same two functions called with any root and depth     *)
(*   SpecFilter  the address filter (AddressFilter)                        *)
(*   SpecBatch   one runIteration with the calls and the result of every   *)
(*               processAccount and the BatchSummary compiled from them    *)
(*   SpecModes   the process with its run modes (single iteration,         *)
(*               complete, infinite, timed) and the shutdown signals       *)
(*   SpecConfig  loadConfig (config) and the construction of the           *)
(*               IndexerService in main                                    *)
(*   SpecCursor  readCursor and saveCursor (fileUtils) on the cursor file  *)
(*   SpecStats   the statistics of the AddressFilter and the snapshot that *)
(*               getStats returns                                          *)
(*   SpecMigration                                                         *)
(*               migrateToHierarchicalStructure (directoryStructure) and   *)
(*               contractFileExists on the migrated files                  *)
(***************************************************************************)
EXTENDS Integers, Sequences, FiniteSets, TLC

(***************************************************************************)
(* Bounds of the model                                                     *)
(***************************************************************************)
\* number of distinct basechain identifiers the source may list
NumIds == 2
\* largest page the source returns (accountsPerPage)
MaxPageLen == 2
\* largest configured maxConcurrentRequests
MaxConc == 2
\* number of distinct cursor tokens the source hands out
NumTokens == 2
\* largest configured maxRetries (loadConfig accepts 0..10)
MaxRetriesBound == 2
\* longest Retry-After header value
MaxHeaderLen == 2
\* largest number of base-256 digits of an expected file count
MaxCountDigits == 6
\* number of digests the hash function may return
NumDigests == 2
\* largest number of shouldProcessAddress calls between two resets
MaxFilterCalls == 3
\* largest number of identifiers in a page of the detailed iteration
MaxBatch == 2
\* largest number of iterations one process starts
MaxIterations == 3
\* largest number of files written with a root and a depth of the caller
MaxStored == 1
\* largest number of files in the directory a migration starts from
MaxFlat == 2
\* longest value of an environment variable
MaxEnvLen == 4
\* longest cursor, in characters, and longest foreign cursor file, in bytes
MaxCursorLen == 2

(***************************************************************************)
(* Strings.  A string is a sequence of character codes (32 is the space,   *)
(* 48..57 are the digits, 97.. the letters).  The JavaScript values null   *)
(* and undefined are the one-element sequence Null, which is no string.    *)
(***************************************************************************)
Null == <<-1>>

\* JavaScript truthiness of a string | null value
Truthy(s) == s /= Null /\ s /= <<>>

\* x || null
OrNull(s) == IF Truthy(s) THEN s ELSE Null

\* white space of JavaScript below U+0100: tab, line feed, vertical tab, form
\* feed, carriage return, space and no-break space
WhiteSpace == {9, 10, 11, 12, 13, 32, 160}

RECURSIVE TrimLeft(_)
TrimLeft(s) == IF s /= <<>> /\ Head(s) \in WhiteSpace THEN TrimLeft(Tail(s)) ELSE s

RECURSIVE TrimRight(_)
TrimRight(s) ==
    IF s /= <<>> /\ s[Len(s)] \in WhiteSpace
    THEN TrimRight(SubSeq(s, 1, Len(s) - 1)) ELSE s

\* String.prototype.trim
Trim(s) == TrimRight(TrimLeft(s))

\* the cursor tokens the source hands out as endCursor
Token(k) == <<96 + k, 96 + k>>
Tokens == { Token(k) : k \in 1..NumTokens }

(***************************************************************************)
(* Files.  A file is [exists, data].  fs.writeFile opens the file with     *)
(* flag 'w' (create or truncate) and then writes the data; the two steps   *)
(* are separate system calls, so a kill can fall between them.             *)
(***************************************************************************)
NoFile == [exists |-> FALSE, data |-> <<>>]

\* fs.writeFile, first step: open(path, 'w') creates or truncates the file
OpenTruncate(f) == [exists |-> TRUE, data |-> <<>>]

\* fs.writeFile, second step: the data is written into the opened file
WriteAll(f, d) == [exists |-> TRUE, data |-> d]

\* fs.pathExists
PathExists(f) == f.exists

\* readCursor: null when the file is absent, else trim() || null
ReadCursor(f) == IF PathExists(f) THEN OrNull(Trim(f.data)) ELSE Null


(***************************************************************************)
(* State of one call of a network client (RestClient.inspectContract or    *)
(* GraphQLClient.fetchAccounts) and its retry loop                         *)
(***************************************************************************)
VARIABLES
    rpc,           \* position of the call: idle, request, sleep, returned, thrown
    client,        \* "rest" (RestClient) or "gql" (GraphQLClient)
    maxRetries,    \* config.maxRetries
    retryDelayMs,  \* config.retryDelayMs
    attempt,       \* the loop variable attempt, 1-based
    lastErr,       \* the failure the last failed attempt met
    decision       \* what handleError returned for it: [shouldRetry, delay]

rvars == <<rpc, client, maxRetries, retryDelayMs, attempt, lastErr, decision>>

(***************************************************************************)
(* State of the directory layout functions: the last call made, and the    *)
(* hash function                                                           *)
(***************************************************************************)
VARIABLES
    md5,    \* generateHash as a function of its input (empty until first used)
    call    \* the last call: its operation, its arguments and what it returned

lvars == <<md5, call>>

(***************************************************************************)
(* State of the hierarchical store (fileUtils over directoryStructure)     *)
(***************************************************************************)
VARIABLES
    running,     \* a process with an IndexerService is running
    totalFiles,  \* the .json files under the data directory when it started
    dirs,        \* the directories under the data directory, as paths
    files,       \* the contract files of the identifiers of the model, as paths
    scall,       \* the last call made to the store
    wrote        \* history: identifier, root and depth of every file written

svars == <<running, totalFiles, dirs, files, scall, wrote>>

(***************************************************************************)
(* State of the address filter (AddressFilter)                             *)
(***************************************************************************)
VARIABLES
    patterns,  \* config.customSkipPatterns
    stats,     \* this.stats: total, processed, skipped, skipReasons
    fresult,   \* the last address filtered and the FilterResult returned
    fcalls     \* history: shouldProcessAddress calls since construction or reset

fvars == <<patterns, stats, fresult, fcalls>>

(***************************************************************************)
(* State of one runIteration with its ProcessingResults (IndexerService)   *)
(***************************************************************************)
VARIABLES
    stage,       \* position of runIteration
    slots,       \* config.maxConcurrentRequests, the concurrency of pLimit
    dataDir,     \* the data directory exists
    cursorTxt,   \* the cursor file
    contracts,   \* the identifiers whose contract file exists
    accounts,    \* response.allAccounts.nodes
    reported,    \* response.allAccounts.pageInfo, as the source reported it
    jobs,        \* one processAccount call per node: position, calls made, result
    outcome      \* what runIteration returned or threw

bvars == <<stage, slots, dataDir, cursorTxt, contracts, accounts, reported, jobs,
           outcome>>

(***************************************************************************)
(* State of the process and of the loop that drives runIteration (main,    *)
(* runComplete, runInfiniteMode, runTimedMode)                             *)
(***************************************************************************)
VARIABLES
    proc,            \* position of the process
    runMode,         \* args[0]: iteration, complete, infinite or timed
    isShuttingDown,  \* main: set by the first SIGINT or SIGTERM
    morePages,       \* runComplete: the loop variable hasNextPage
    iterationCount,  \* iterations the process has started
    clock,           \* runTimedMode: the time left until endTime
    cursorSaved,     \* the cursor file holds a cursor
    cursorLost       \* history: a saveCursor failed in this process

mvars == <<proc, runMode, isShuttingDown, morePages, iterationCount, clock,
           cursorSaved, cursorLost>>

(***************************************************************************)
(* State of the start of the process: the environment and loadConfig       *)
(***************************************************************************)
VARIABLES
    env,      \* process.env: TONAPI_KEY and the three validated numbers
    loaded,   \* main: what loadConfig returned or threw
    indexer   \* main: an IndexerService was constructed

cvars == <<env, loaded, indexer>>

(***************************************************************************)
(* State of the cursor file as readCursor and saveCursor use it (fileUtils) *)
(***************************************************************************)
VARIABLES
    cfile,      \* the cursor file: exists, and its bytes
    lastSaved,  \* history: the cursor of the saveCursor that wrote the file
    cop         \* the last call: saveCursor, or the readCursor and fetchAccounts
                \* of a runIteration with the cursor read and the one requested

kvars == <<cfile, lastSaved, cop>>

(***************************************************************************)
(* State of the statistics of an address filter and of a snapshot of them  *)
(* (AddressFilter.getStats)                                                *)
(***************************************************************************)
VARIABLES
    tally,     \* this.stats of an AddressFilter without custom patterns
    snapshot   \* the last object getStats returned: as returned, and as its
               \* holder sees it now

tvars == <<tally, snapshot>>

(***************************************************************************)
(* State of a migration of a flat data directory into the hierarchical     *)
(* layout (migrateToHierarchicalStructure)                                 *)
(***************************************************************************)
VARIABLES
    flat,     \* the identifiers whose file lies in the source directory
    tree,     \* the files under the target directory, as paths
    mig,      \* migrateToHierarchicalStructure: position, files found and to
              \* do, the depth, and the result counted so far
    moved,    \* history: the identifiers whose file the migration renamed
    mcheck    \* the last contractFileExists call after the migration

gvars == <<flat, tree, mig, moved, mcheck>>

(***************************************************************************)
(* Identifiers.  An identifier is <<workchain, payload>>.  The address     *)
(* filter rejects every identifier of workchain -2; the basechain          *)
(* identifiers of the model pass all its rules.                            *)
(***************************************************************************)
Addresses == { <<0, k>> : k \in 1..NumIds } \cup { <<-2, 1>> }

\* AddressFilter.shouldProcessAddress(rawAddress).shouldProcess
ShouldProcess(a) == a[1] /= -2

\* JSON.stringify(data, null, 2) of the payload the detail endpoint returns
Serialized(a) == <<48 + a[2], 48 + a[2]>>

\* the pages the source can return: up to MaxPageLen identifiers, repeats allowed
Pages == UNION { [1..n -> Addresses] : n \in 0..MaxPageLen }

(***************************************************************************)
(* State of the orchestrator                                               *)
(***************************************************************************)
VARIABLES
    pc,          \* position of the process (main / runComplete / runIteration)
    mode,        \* run mode of the process: "iteration" or "complete"
    limit,       \* config.maxConcurrentRequests, the concurrency of pLimit
    cursorFile,  \* the cursor file
    store,       \* the contract file of every identifier
    reqCursor,   \* runIteration: the cursor read at the start of the iteration
    nodes,       \* runIteration: response.allAccounts.nodes
    pageInfo,    \* runIteration: response.allAccounts.pageInfo
    tasks,       \* processAccountsBatch: state of the task of every node
    iterResult,  \* runComplete: the value runIteration returned
    crash        \* history: what the last kill interrupted

ivars == <<pc, mode, limit, cursorFile, store, reqCursor, nodes, pageInfo, tasks,
           iterResult, crash>>

\* what the actions of one component leave alone
exceptIndexer == <<rvars, lvars, svars, fvars, bvars, mvars, cvars, kvars, tvars, gvars>>
exceptRetry == <<ivars, lvars, svars, fvars, bvars, mvars, cvars, kvars, tvars, gvars>>
exceptLayout == <<ivars, rvars, svars, fvars, bvars, mvars, cvars, kvars, tvars, gvars>>
exceptStore == <<ivars, rvars, call, fvars, bvars, mvars, cvars, kvars, tvars, gvars>>
exceptFilter == <<ivars, rvars, lvars, svars, bvars, mvars, cvars, kvars, tvars, gvars>>
exceptBatch == <<ivars, rvars, lvars, svars, fvars, mvars, cvars, kvars, tvars, gvars>>
exceptModes == <<ivars, rvars, lvars, svars, fvars, bvars, cvars, kvars, tvars, gvars>>
exceptMigration == <<ivars, rvars, call, svars, fvars, bvars, mvars, cvars, kvars, tvars>>
exceptStats == <<ivars, rvars, lvars, svars, fvars, bvars, mvars, cvars, kvars, gvars>>
exceptCursor == <<ivars, rvars, lvars, svars, fvars, bvars, mvars, cvars, tvars, gvars>>
exceptConfig == <<ivars, rvars, lvars, svars, fvars, bvars, mvars, kvars, tvars, gvars>>

conf == <<mode, limit>>
disk == <<cursorFile, store>>
iter == <<reqCursor, nodes, pageInfo, tasks>>

NoResult == [ran |-> FALSE, hasNextPage |-> FALSE, endCursor |-> Null]
NoPageInfo == [hasNextPage |-> FALSE, endCursor |-> Null]
NoCrash == [inWindow |-> FALSE, cursor |-> Null, saving |-> Null, written |-> {}]

\* task states: a queued task waits in pLimit; exists (contractFileExists is
\* pending), inspect (inspectContract is pending) and write (fs.writeFile has
\* opened the file) are the suspension points of processAccount; the rest are
\* its results
Running == {"exists", "inspect", "write"}
Terminal == {"saved", "skipped", "failed"}

\* pLimit: number of tasks started and not yet finished
ActiveCount(ts) == Cardinality({ i \in DOMAIN ts : ts[i] \in Running })

\* a limiter without a bound: every task is started at once
CanStartUnbounded(ts, n) == TRUE

\* pLimit starts a queued task only while activeCount < concurrency
CanStart(ts, n) == ActiveCount(ts) < n

\* pLimit's queue is first-in first-out: the next task is the first queued one
NextQueued(ts, i) ==
    /\ i \in DOMAIN ts
    /\ ts[i] = "queued"
    /\ \A j \in 1..(i - 1) : ts[j] /= "queued"

\* Promise.race in place of Promise.all: one task with a result is enough
AnySettled(ts) == \E i \in DOMAIN ts : ts[i] \in Terminal

\* Promise.all(tasks) resolves once every task has returned its result
AllSettled(ts) == \A i \in DOMAIN ts : ts[i] \in Terminal

\* the locals of runIteration outside an iteration
ClearIteration ==
    /\ reqCursor' = Null
    /\ nodes' = <<>>
    /\ pageInfo' = NoPageInfo
    /\ tasks' = <<>>

\* the process ends: nothing of its memory is left
Stop ==
    /\ pc' = "stopped"
    /\ mode' = "iteration"
    /\ limit' = 1
    /\ iterResult' = NoResult
    /\ ClearIteration

InitIndexer ==
    /\ pc = "stopped"
    /\ mode = "iteration"
    /\ limit = 1
    /\ cursorFile = NoFile
    /\ store = [a \in Addresses |-> NoFile]
    /\ reqCursor = Null
    /\ nodes = <<>>
    /\ pageInfo = NoPageInfo
    /\ tasks = <<>>
    /\ iterResult = NoResult
    /\ crash = NoCrash

(***************************************************************************)
(* The process: main, runComplete and runIteration                         *)
(***************************************************************************)
\* main: a process starts (first start, cron run, or restart after a kill),
\* loads its configuration and enters runIteration or runComplete
Start ==
    /\ UNCHANGED exceptIndexer
    /\ pc = "stopped"
    /\ \E m \in {"iteration", "complete"}, n \in 1..MaxConc :
          /\ mode' = m
          /\ limit' = n
    /\ pc' = "readCursor"
    /\ crash' = [crash EXCEPT !.saving = Null]
    /\ UNCHANGED <<disk, iter, iterResult>>

\* runIteration: const cursor = await readCursor(...)
RunIterationRead ==
    /\ UNCHANGED exceptIndexer
    /\ pc = "readCursor"
    /\ reqCursor' = ReadCursor(cursorFile)
    /\ pc' = "fetch"
    /\ UNCHANGED <<conf, disk, nodes, pageInfo, tasks, iterResult, crash>>

\* the IterationResult runIteration returns for a page that had nodes
IterationResult(pi) ==
    [ran |-> TRUE, hasNextPage |-> pi.hasNextPage, endCursor |-> pi.endCursor]

\* the IterationResult runIteration returns for a page without nodes
EmptyResult == [ran |-> TRUE, hasNextPage |-> FALSE, endCursor |-> Null]

\* runIteration returns to its caller
Return(res) ==
    /\ pc' = "returned"
    /\ iterResult' = res
    /\ crash' = NoCrash
    /\ ClearIteration

\* runIteration: fetchAccounts returns a page; an empty page ends the iteration,
\* any other page is handed to processAccountsBatch, which queues one task per
\* node in pLimit
FetchReturns ==
    /\ UNCHANGED exceptIndexer
    /\ pc = "fetch"
    /\ \E ns \in Pages, h \in BOOLEAN, c \in Tokens \cup {Null} :
          IF Len(ns) = 0
          THEN Return(EmptyResult)
          ELSE /\ pc' = "batch"
               /\ nodes' = ns
               /\ pageInfo' = [hasNextPage |-> h, endCursor |-> c]
               /\ tasks' = [i \in 1..Len(ns) |-> "queued"]
               /\ UNCHANGED <<reqCursor, iterResult, crash>>
    /\ UNCHANGED <<conf, disk>>

\* runIteration: fetchAccounts throws after its retries; the error leaves
\* runIteration and runComplete, and main ends the process with exit code 1
FetchFails ==
    /\ UNCHANGED exceptIndexer
    /\ pc = "fetch"
    /\ Stop
    /\ crash' = NoCrash
    /\ UNCHANGED disk

(***************************************************************************)
(* processAccount, one action per suspension point.  Tasks run while the   *)
(* process is alive and has tasks.                                         *)
(***************************************************************************)
TasksAlive == pc \in {"batch", "saveOpen", "saveWrite"}

SetTask(i, st) == tasks' = [tasks EXCEPT ![i] = st]

\* pLimit starts the next queued task: the filter runs synchronously, a
\* filtered identifier returns skipped, any other awaits contractFileExists
TaskStart(i) ==
    /\ UNCHANGED exceptIndexer
    /\ TasksAlive
    /\ NextQueued(tasks, i)
    /\ CanStart(tasks, limit)
    /\ SetTask(i, IF ShouldProcess(nodes[i]) THEN "exists" ELSE "skipped")
    /\ UNCHANGED <<pc, conf, disk, reqCursor, nodes, pageInfo, iterResult, crash>>

\* contractFileExists resolves: an existing file returns skipped, else the
\* task calls inspectContract
TaskExists(i) ==
    /\ UNCHANGED exceptIndexer
    /\ TasksAlive
    /\ i \in DOMAIN tasks
    /\ tasks[i] = "exists"
    /\ SetTask(i, IF PathExists(store[nodes[i]]) THEN "skipped" ELSE "inspect")
    /\ UNCHANGED <<pc, conf, disk, reqCursor, nodes, pageInfo, iterResult, crash>>

\* inspectContract resolves and the task calls saveContractData: after
\* prepareFilePath, fs.writeFile opens the file of the identifier
TaskInspectReturns(i) ==
    /\ UNCHANGED exceptIndexer
    /\ TasksAlive
    /\ i \in DOMAIN tasks
    /\ tasks[i] = "inspect"
    /\ store' = [store EXCEPT ![nodes[i]] = OpenTruncate(@)]
    /\ SetTask(i, "write")
    /\ UNCHANGED <<pc, conf, cursorFile, reqCursor, nodes, pageInfo, iterResult, crash>>

\* inspectContract throws after its retries, or saveContractData throws before
\* the file is opened: the catch block returns a failed result
TaskFails(i) ==
    /\ UNCHANGED exceptIndexer
    /\ TasksAlive
    /\ i \in DOMAIN tasks
    /\ tasks[i] = "inspect"
    /\ SetTask(i, "failed")
    /\ UNCHANGED <<pc, conf, disk, reqCursor, nodes, pageInfo, iterResult, crash>>

\* saveContractData: fs.writeFile writes the snapshot; the task returns saved
TaskWriteData(i) ==
    /\ UNCHANGED exceptIndexer
    /\ TasksAlive
    /\ i \in DOMAIN tasks
    /\ tasks[i] = "write"
    /\ store' = [store EXCEPT ![nodes[i]] = WriteAll(@, Serialized(nodes[i]))]
    /\ SetTask(i, "saved")
    /\ UNCHANGED <<pc, conf, cursorFile, reqCursor, nodes, pageInfo, iterResult, crash>>

(***************************************************************************)
(* runIteration after the batch: saveCursor and the returned result        *)
(***************************************************************************)
\* await processAccountsBatch(accounts) resolves; with an endCursor the
\* iteration calls saveCursor, without one it returns
BatchDone ==
    /\ UNCHANGED exceptIndexer
    /\ pc = "batch"
    /\ AllSettled(tasks)
    /\ IF Truthy(pageInfo.endCursor)
       THEN /\ pc' = "saveOpen"
            /\ UNCHANGED <<iter, iterResult, crash>>
       ELSE Return(IterationResult(pageInfo))
    /\ UNCHANGED <<conf, disk>>

\* saveCursor: fs.writeFile(filePath, cursor) opens the cursor file
CursorOpen ==
    /\ UNCHANGED exceptIndexer
    /\ pc = "saveOpen"
    /\ cursorFile' = OpenTruncate(cursorFile)
    /\ pc' = "saveWrite"
    /\ UNCHANGED <<conf, store, iter, iterResult, crash>>

\* saveCursor: fs.writeFile writes the cursor, in one write or in several;
\* after the last one saveCursor resolves and runIteration returns
CursorWrite ==
    /\ UNCHANGED exceptIndexer
    /\ pc = "saveWrite"
    /\ \E k \in (Len(cursorFile.data) + 1)..Len(pageInfo.endCursor) :
          /\ cursorFile' = WriteAll(cursorFile, SubSeq(pageInfo.endCursor, 1, k))
          /\ IF k = Len(pageInfo.endCursor)
             THEN Return(IterationResult(pageInfo))
             ELSE UNCHANGED <<pc, iter, iterResult, crash>>
    /\ UNCHANGED <<conf, store>>

(***************************************************************************)
(* The callers of runIteration                                             *)
(***************************************************************************)
\* main, single iteration mode: the process ends after the iteration
MainExit ==
    /\ UNCHANGED exceptIndexer
    /\ pc = "returned"
    /\ mode = "iteration"
    /\ Stop
    /\ UNCHANGED <<disk, crash>>

\* runComplete: the loop variable hasNextPage after the read-back of the
\* cursor file; the result of runIteration is used for the totals only
LoopContinues(cursor, res) == Truthy(cursor)

\* runComplete: read the cursor back, then run the next iteration or return
RunCompleteNext ==
    /\ UNCHANGED exceptIndexer
    /\ pc = "returned"
    /\ mode = "complete"
    /\ IF LoopContinues(ReadCursor(cursorFile), iterResult)
       THEN /\ pc' = "readCursor"
            /\ iterResult' = NoResult
            /\ UNCHANGED <<conf, iter>>
       ELSE Stop
    /\ UNCHANGED <<disk, crash>>

(***************************************************************************)
(* The environment: the process is killed (SIGKILL, power loss)            *)
(***************************************************************************)
\* the part of an iteration after fetchAccounts returned a page and before
\* saveCursor completed
InWindow == pc \in {"batch", "saveOpen", "saveWrite"}

\* the identifiers whose snapshot is on disk in full
Written == { a \in Addresses : PathExists(store[a]) /\ store[a].data = Serialized(a) }

Kill ==
    /\ UNCHANGED exceptIndexer
    /\ pc /= "stopped"
    /\ crash' = IF InWindow
                THEN [inWindow |-> TRUE, cursor |-> reqCursor,
                      saving |-> IF pc = "batch" THEN Null ELSE pageInfo.endCursor,
                      written |-> Written]
                ELSE NoCrash
    /\ Stop
    /\ UNCHANGED disk

TaskStep ==
    \E i \in 1..MaxPageLen :
        \/ TaskStart(i)
        \/ TaskExists(i)
        \/ TaskInspectReturns(i)
        \/ TaskFails(i)
        \/ TaskWriteData(i)

Next ==
    \/ Start
    \/ RunIterationRead
    \/ FetchReturns
    \/ FetchFails
    \/ TaskStep
    \/ BatchDone
    \/ CursorOpen
    \/ CursorWrite
    \/ MainExit
    \/ RunCompleteNext

NextCrash ==
    \/ Next
    \/ Kill

(***************************************************************************)
(* The retry policy of the two clients                                     *)
(***************************************************************************)
\* the cap both handleError methods put on the exponential delay
MaxDelayMs == 60000

Min(a, b) == IF a < b THEN a ELSE b

\* Number.isNaN: NaN is modelled by -1, no header of the model has a sign
NaN == -1

IsDigit(c) == c \in 48..57

RECURSIVE DigitRun(_)
\* the longest prefix of s made of digits
DigitRun(s) ==
    IF s /= <<>> /\ IsDigit(Head(s)) THEN <<Head(s)>> \o DigitRun(Tail(s)) ELSE <<>>

RECURSIVE DecimalValue(_)
DecimalValue(ds) ==
    IF ds = <<>> THEN 0
    ELSE 10 * DecimalValue(SubSeq(ds, 1, Len(ds) - 1)) + (ds[Len(ds)] - 48)

\* parseInt(s, 10): the value of the leading digits, NaN when there is none
ParseInt(s) == IF DigitRun(s) = <<>> THEN NaN ELSE DecimalValue(DigitRun(s))

\* the exponential delay without Math.min
UncappedDelay(d, n) == d * 2^n

\* Math.min(retryDelayMs * Math.pow(2, attempt), 60000)
ExponentialDelay(d, n) == Min(d * 2^n, MaxDelayMs)

\* a 429 branch that does not read the Retry-After header
RestRateLimitDelayNoHeader(retryAfter, n, d) == ExponentialDelay(d, n)

\* RestClient.handleError, status 429: the delay from the Retry-After header
RestRateLimitDelay(retryAfter, n, d) ==
    IF Truthy(retryAfter)
    THEN IF ParseInt(retryAfter) /= NaN
         THEN ParseInt(retryAfter) * 1000
         ELSE ExponentialDelay(d, n)
    ELSE ExponentialDelay(d, n)

\* GraphQLClient.handleError, status 429: the delay from the Retry-After header
GqlRateLimitDelay(retryAfter, n, d) ==
    IF Truthy(retryAfter)
    THEN IF ParseInt(retryAfter) /= NaN
         THEN ParseInt(retryAfter) * 1000
         ELSE ExponentialDelay(d, n)
    ELSE ExponentialDelay(d, n)

\* a handleError that retries whatever the error is
RestHandleErrorRetryAll(err, n, d) == [shouldRetry |-> TRUE, delay |-> d * n]

\* RestClient.handleError: an axios error with a response (by status), an axios
\* error with a request and no response (network failure), anything else
RestHandleError(err, n, d) ==
    IF err.kind = "status"
    THEN IF err.status = 429
         THEN [shouldRetry |-> TRUE, delay |-> RestRateLimitDelay(err.retryAfter, n, d)]
         ELSE [shouldRetry |-> TRUE, delay |-> d * n]
    ELSE IF err.kind = "network"
         THEN [shouldRetry |-> TRUE, delay |-> d * n]
         ELSE [shouldRetry |-> FALSE, delay |-> 0]

\* GraphQLClient.handleError: a ClientError (the server answered, by status),
\* anything else; a network failure is no ClientError
GqlHandleError(err, n, d) ==
    IF err.kind = "status"
    THEN IF err.status = 429
         THEN [shouldRetry |-> TRUE, delay |-> GqlRateLimitDelay(err.retryAfter, n, d)]
         ELSE [shouldRetry |-> TRUE, delay |-> d * n]
    ELSE [shouldRetry |-> FALSE, delay |-> 0]

HandleError(c, err, n, d) ==
    IF c = "rest" THEN RestHandleError(err, n, d) ELSE GqlHandleError(err, n, d)

\* the values of a Retry-After header: texts of the digits 0, 1, 2 and 6 and
\* the letter G, or no header (Null)
HeaderChars == {48, 49, 50, 54, 71}
HeaderValues == UNION { [1..n -> HeaderChars] : n \in 0..MaxHeaderLen } \cup {Null}

\* the failures of one attempt: a network failure without response, an HTTP
\* error status (429 with its Retry-After header), or any other error
Failures ==
    { [kind |-> "network", status |-> 0, retryAfter |-> Null],
      [kind |-> "other", status |-> 0, retryAfter |-> Null],
      [kind |-> "status", status |-> 500, retryAfter |-> Null] }
    \cup { [kind |-> "status", status |-> 429, retryAfter |-> h] : h \in HeaderValues }

\* the configured base delays of the model
RetryDelays == {0, 1000, 40000}

NoFailure == [kind |-> "none", status |-> 0, retryAfter |-> Null]
NoDecision == [shouldRetry |-> FALSE, delay |-> 0]

InitRetry ==
    /\ rpc = "idle"
    /\ client = "rest"
    /\ maxRetries = 0
    /\ retryDelayMs = 0
    /\ attempt = 0
    /\ lastErr = NoFailure
    /\ decision = NoDecision

\* inspectContract or fetchAccounts is called: attempt = 1
CallBegins ==
    /\ UNCHANGED exceptRetry
    /\ rpc = "idle"
    /\ \E c \in {"rest", "gql"}, m \in 0..MaxRetriesBound, d \in RetryDelays :
          /\ client' = c
          /\ maxRetries' = m
          /\ retryDelayMs' = d
    /\ attempt' = 1
    /\ rpc' = "request"
    /\ lastErr' = NoFailure
    /\ decision' = NoDecision

\* the request of this attempt succeeds: the call returns the response
AttemptSucceeds ==
    /\ UNCHANGED exceptRetry
    /\ rpc = "request"
    /\ rpc' = "returned"
    /\ UNCHANGED <<client, maxRetries, retryDelayMs, attempt, lastErr, decision>>

\* a loop that allows one attempt too many
LastAttemptLate(n, m) == n = m + 2

\* attempt === this.config.maxRetries + 1
LastAttempt(n, m) == n = m + 1

\* the request of this attempt fails: handleError decides; on the last attempt
\* or without shouldRetry the loop breaks and lastError is thrown, otherwise
\* the call sleeps for the delay
AttemptFails ==
    /\ UNCHANGED exceptRetry
    /\ rpc = "request"
    /\ \E err \in Failures :
          LET r == HandleError(client, err, attempt, retryDelayMs) IN
          /\ lastErr' = err
          /\ decision' = r
          /\ rpc' = IF LastAttempt(attempt, maxRetries) \/ ~r.shouldRetry
                    THEN "thrown" ELSE "sleep"
    /\ UNCHANGED <<client, maxRetries, retryDelayMs, attempt>>

\* the sleep ends: attempt++ and the next request is made
SleepEnds ==
    /\ UNCHANGED exceptRetry
    /\ rpc = "sleep"
    /\ attempt' = attempt + 1
    /\ rpc' = "request"
    /\ UNCHANGED <<client, maxRetries, retryDelayMs, lastErr, decision>>

\* the call is over; the client is ready for the next call
CallEnds ==
    /\ UNCHANGED exceptRetry
    /\ rpc \in {"returned", "thrown"}
    /\ rpc' = "idle"
    /\ client' = "rest"
    /\ maxRetries' = 0
    /\ retryDelayMs' = 0
    /\ attempt' = 0
    /\ lastErr' = NoFailure
    /\ decision' = NoDecision

NextRetry ==
    \/ CallBegins
    \/ AttemptSucceeds
    \/ AttemptFails
    \/ SleepEnds
    \/ CallEnds

(***************************************************************************)
(* The directory layout (directoryStructure)                               *)
(***************************************************************************)
\* DIRECTORY_CONSTANTS
MAX_FILES_PER_DIRECTORY == 1000
HASH_LENGTH == 2
MIN_DIRECTORY_LEVELS == 2
MAX_DIRECTORY_LEVELS == 6

(***************************************************************************)
(* File counts.  A count is a natural number written as its base-256       *)
(* digits, least significant first, so that counts of hundreds of millions *)
(* of files and the powers of 256 they are divided by stay exact.  A       *)
(* division by a power of 256 is exact in JavaScript numbers as well.      *)
(***************************************************************************)
\* 100,000,000 = 0x05F5E100
OneHundredMillion == <<0, 225, 245, 5>>

\* the digits of the counts of the model: 1000 = 0x03E8 is <<232, 3>>
CountDigits == {0, 1, 3, 232}
Counts ==
    UNION { [1..k -> CountDigits] : k \in 0..MaxCountDigits } \cup {OneHundredMillion}

RECURSIVE StripHighZeros(_)
StripHighZeros(n) ==
    IF n /= <<>> /\ n[Len(n)] = 0 THEN StripHighZeros(SubSeq(n, 1, Len(n) - 1)) ELSE n

RECURSIVE CountValue(_)
\* the number a count of at most two digits stands for
CountValue(n) == IF n = <<>> THEN 0 ELSE Head(n) + 256 * CountValue(Tail(n))

\* floor(n / 256^k)
ShiftRight(n, k) == IF Len(n) <= k THEN <<>> ELSE SubSeq(n, k + 1, Len(n))

\* n mod 256^k is not zero
HasRemainder(n, k) == \E i \in 1..Min(k, Len(n)) : n[i] /= 0

\* n / 256^k > m, for m below 65536
QuotientAbove(n, k, m) ==
    LET q == StripHighZeros(ShiftRight(n, k)) IN
    IF Len(q) > 2 THEN TRUE
    ELSE \/ CountValue(q) > m
         \/ CountValue(q) = m /\ HasRemainder(n, k)

\* foldersPerLevel = Math.pow(256, HASH_LENGTH), as the exponent of 256
FoldersPerLevelExp == HASH_LENGTH

\* totalFolders = Math.pow(foldersPerLevel, requiredLevels), as the exponent of 256
TotalFoldersExp(requiredLevels) == FoldersPerLevelExp * requiredLevels

RECURSIVE RequiredLevels(_, _)
\* the while loop of calculateOptimalDirectoryLevels
RequiredLevels(n, requiredLevels) ==
    IF /\ QuotientAbove(n, TotalFoldersExp(requiredLevels), MAX_FILES_PER_DIRECTORY)
       /\ requiredLevels < MAX_DIRECTORY_LEVELS
    THEN RequiredLevels(n, requiredLevels + 1)
    ELSE requiredLevels

calculateOptimalDirectoryLevels(expectedFileCount) ==
    Min(RequiredLevels(expectedFileCount, MIN_DIRECTORY_LEVELS), MAX_DIRECTORY_LEVELS)

(***************************************************************************)
(* Identifiers as strings, and paths.  A path is the sequence of its       *)
(* segments; path.join joins its arguments and normalizes the result.      *)
(***************************************************************************)
\* the cosmetic prefixes EQ, UQ and kQ
AddressPrefixes == { <<69, 81>>, <<85, 81>>, <<107, 81>> }

\* the shards 0 and -1, and the payloads a0 and 0A
ShardTexts == { <<48>>, <<45, 49>> }
PayloadTexts == { <<97, 48>>, <<48, 65>> }

\* raw addresses <shard>:<hex-payload>, with and without a prefix
RawAddresses == { sh \o <<58>> \o pl : sh \in ShardTexts, pl \in PayloadTexts }
LayoutAddresses == RawAddresses \cup { p \o a : p \in AddressPrefixes, a \in RawAddresses }

\* the segments . and data
DotSegment == <<46>>
DataSegment == <<100, 97, 116, 97>>

\* the base directories ./data (the default) and data
BaseDirs == { <<DotSegment, DataSegment>>, <<DataSegment>> }

\* directoryLevels is an optional parameter: 0 stands for undefined
NoLevels == 0
LevelArgs == {NoLevels} \cup (MIN_DIRECTORY_LEVELS..MAX_DIRECTORY_LEVELS)

\* the hex digits 0..9, a..f
HexChar(v) == IF v < 10 THEN 48 + v ELSE 87 + v

\* the digests generateHash may return: the hex characters the layout reads
DigestLen == HASH_LENGTH * MAX_DIRECTORY_LEVELS
Digest(k) == [i \in 1..DigestLen |-> HexChar((k * i) % 16)]
Digests == { Digest(k) : k \in 1..NumDigests }

\* address.replace(/^(EQ|UQ|kQ)/, '')
CleanAddress(address) ==
    IF Len(address) >= 2 /\ SubSeq(address, 1, 2) \in AddressPrefixes
    THEN SubSeq(address, 3, Len(address))
    ELSE address

\* String.prototype.substring(startIndex, endIndex), indices from 0
Substring(str, startIndex, endIndex) == SubSeq(str, startIndex + 1, Min(endIndex, Len(str)))

RECURSIVE Normalize(_)
\* path.join drops the empty segments and the . segments
Normalize(segments) ==
    IF segments = <<>> THEN <<>>
    ELSE IF Head(segments) \in {<<>>, DotSegment}
         THEN Normalize(Tail(segments))
         ELSE <<Head(segments)>> \o Normalize(Tail(segments))

PathJoin(baseDir, segments) == Normalize(baseDir \o segments)

\* a depth that ignores the parameter
LevelsDefault(directoryLevels) == MIN_DIRECTORY_LEVELS

\* directoryLevels || DIRECTORY_CONSTANTS.MIN_DIRECTORY_LEVELS
Levels(directoryLevels) ==
    IF directoryLevels /= NoLevels THEN directoryLevels ELSE MIN_DIRECTORY_LEVELS

\* getDirectoryPath, hash being generateHash(cleanAddress)
getDirectoryPath(address, baseDir, directoryLevels, hash) ==
    LET directories ==
            [i \in 1..Levels(directoryLevels) |->
                Substring(hash, (i - 1) * HASH_LENGTH, (i - 1) * HASH_LENGTH + HASH_LENGTH)]
    IN  PathJoin(baseDir, directories)

IsAlnum(c) == c \in (48..57) \cup (65..90) \cup (97..122)

\* the text inspect_ and the text .json
InspectPrefix == <<105, 110, 115, 112, 101, 99, 116, 95>>
JsonSuffix == <<46, 106, 115, 111, 110>>

\* a file name without the address
FileNameConstant(address) == InspectPrefix \o JsonSuffix

\* `inspect_${address.replace(/[^a-zA-Z0-9]/g, '_')}.json`
FileName(address) ==
    InspectPrefix \o [i \in 1..Len(address) |-> IF IsAlnum(address[i]) THEN address[i] ELSE 95]
                  \o JsonSuffix

\* generateFileName: `inspect_${rawAddress.replace(/:/g, '_')}.json`
generateFileName(rawAddress) ==
    InspectPrefix \o [i \in 1..Len(rawAddress) |-> IF rawAddress[i] = 58 THEN 95 ELSE rawAddress[i]]
                  \o JsonSuffix

getFilePath(address, baseDir, directoryLevels, hash) ==
    PathJoin(getDirectoryPath(address, baseDir, directoryLevels, hash), <<FileName(address)>>)

NoCall ==
    [op |-> "none", count |-> <<>>, levels |-> 0, address |-> <<>>, baseDir |-> <<>>,
     directoryLevels |-> NoLevels, dirPath |-> <<>>, filePath |-> <<>>]

InitLayout ==
    /\ md5 = [x \in {} |-> <<>>]
    /\ call = NoCall

\* calculateOptimalDirectoryLevels is called with an expected file count
CalculateLevels ==
    /\ UNCHANGED exceptLayout
    /\ call.op = "none"
    /\ \E n \in Counts :
          call' = [NoCall EXCEPT !.op = "levels", !.count = n,
                                 !.levels = calculateOptimalDirectoryLevels(n)]
    /\ UNCHANGED md5

\* getFilePath is called: it calls getDirectoryPath, which hashes the clean
\* address; generateHash returns the digest it returned before for an input it
\* has seen, and some digest for a new input
GetFilePath ==
    /\ UNCHANGED exceptLayout
    /\ call.op = "none"
    /\ \E a \in LayoutAddresses, b \in BaseDirs, d \in LevelArgs, h \in Digests :
          /\ CleanAddress(a) \in DOMAIN md5 => h = md5[CleanAddress(a)]
          /\ md5' = IF CleanAddress(a) \in DOMAIN md5 THEN md5
                     ELSE (CleanAddress(a) :> h) @@ md5
          /\ call' = [NoCall EXCEPT !.op = "path", !.address = a, !.baseDir = b,
                                     !.directoryLevels = d,
                                     !.dirPath = getDirectoryPath(a, b, d, h),
                                     !.filePath = getFilePath(a, b, d, h)]

\* the caller has taken the value the call returned
CallReturns ==
    /\ UNCHANGED exceptLayout
    /\ call.op /= "none"
    /\ call' = NoCall
    /\ UNCHANGED md5

NextLevels ==
    \/ CalculateLevels
    \/ CallReturns

NextLayout ==
    \/ GetFilePath
    \/ CallReturns

(***************************************************************************)
(* The hierarchical store as the IndexerService uses it                    *)
(***************************************************************************)
\* config.dataDirectory: process.env.DATA_DIRECTORY || './data'
DataDirectory == <<DotSegment, DataSegment>>

\* the file counts the data directory may hold when a process starts: none,
\* 1000, 100,000,000 and 1000 * 65536^2 + 1
StartCounts == { <<>>, <<232, 3>>, OneHundredMillion, <<1, 0, 0, 0, 232, 3>> }

\* 100000 = 0x0186A0, the estimate taken for an empty or absent data directory
DefaultEstimate == <<160, 134, 1>>

\* !fileCount, fileCount === 0
IsZeroCount(n) == \A i \in DOMAIN n : n[i] = 0

\* determineOptimalDirectoryLevels without estimatedTotalFiles: the count of
\* the scan (analyzeDirectoryDistribution), the estimate for an empty or
\* absent data directory
determineOptimalDirectoryLevels(dataDirectoryExists, scanned) ==
    LET fileCount == IF dataDirectoryExists /\ ~IsZeroCount(scanned)
                     THEN scanned ELSE DefaultEstimate
    IN  calculateOptimalDirectoryLevels(fileCount)

\* fs.mkdir(dirPath, { recursive: true }): the directory and its ancestors
ensureDirectoryExists(ds, dirPath) ==
    ds \cup { SubSeq(dirPath, 1, k) : k \in 1..Len(dirPath) }

\* an existence check that prepares the path as saveContractData does
DirectoriesOfPrepare(ds, dirPath) == ensureDirectoryExists(ds, dirPath)

\* contractFileExists computes the path with getFilePath, which creates nothing
DirectoriesOfExists(ds, dirPath) == ds

\* a saveContractData that writes into the data directory itself, under
\* the name of generateFileName
prepareFilePathFlat(address, baseDir, directoryLevels, hash) ==
    PathJoin(baseDir, <<generateFileName(address)>>)

\* prepareFilePath: the path saveContractData writes; the directory is
\* created by ensureDirectoryExists
prepareFilePath(address, baseDir, directoryLevels, hash) ==
    LET dirPath == getDirectoryPath(address, baseDir, directoryLevels, hash)
    IN  PathJoin(dirPath, <<FileName(address)>>)

\* what a written file is remembered by: identifier, root as path.join
\* writes it, and depth
WrittenAs(a, baseDir, directoryLevels) ==
    <<a, Normalize(baseDir), Levels(directoryLevels)>>

NoStoreCall ==
    [op |-> "none", address |-> <<>>, baseDir |-> <<>>, levels |-> 0, filePath |-> <<>>,
     result |-> FALSE]

InitStore ==
    /\ running = FALSE
    /\ totalFiles = <<>>
    /\ dirs = {}
    /\ files = {}
    /\ scall = NoStoreCall
    /\ wrote = {}

\* main: a process starts over a data directory that may hold files of
\* earlier runs; runIteration ensures the data directory
StoreStart ==
    /\ UNCHANGED exceptStore
    /\ ~running
    /\ running' = TRUE
    /\ totalFiles' \in StartCounts
    /\ dirs' = ensureDirectoryExists(dirs, Normalize(DataDirectory))
    /\ scall' = NoStoreCall
    /\ UNCHANGED <<md5, files, wrote>>

\* generateHash inside a store call: the digest h of the clean address
Hashed(a, h) ==
    /\ CleanAddress(a) \in DOMAIN md5 => h = md5[CleanAddress(a)]
    /\ md5' = IF CleanAddress(a) \in DOMAIN md5 THEN md5
               ELSE (CleanAddress(a) :> h) @@ md5

\* processAccount: contractFileExists(this.config.dataDirectory, rawAddress),
\* directoryLevels being undefined
ContractFileExists ==
    /\ UNCHANGED exceptStore
    /\ running
    /\ \E a \in RawAddresses, h \in Digests :
          LET filePath == getFilePath(a, DataDirectory, NoLevels, h)
              dirPath == getDirectoryPath(a, DataDirectory, NoLevels, h)
          IN  /\ Hashed(a, h)
              /\ dirs' = DirectoriesOfExists(dirs, dirPath)
              /\ scall' = [op |-> "exists", address |-> a, baseDir |-> DataDirectory,
                            levels |-> Levels(NoLevels), filePath |-> filePath,
                            result |-> filePath \in files]
    /\ UNCHANGED <<running, totalFiles, files, wrote>>

\* processAccount: saveContractData(this.config.dataDirectory, rawAddress,
\* contractData, this.logger), directoryLevels being undefined: prepareFilePath
\* creates the directories, fs.writeFile the file
SaveContractData ==
    /\ UNCHANGED exceptStore
    /\ running
    /\ \E a \in RawAddresses, h \in Digests :
          LET filePath == prepareFilePath(a, DataDirectory, NoLevels, h)
              dirPath == getDirectoryPath(a, DataDirectory, NoLevels, h)
          IN  /\ Hashed(a, h)
              /\ dirs' = ensureDirectoryExists(dirs, dirPath)
              /\ files' = files \cup {filePath}
              /\ wrote' = wrote \cup {WrittenAs(a, DataDirectory, NoLevels)}
              /\ scall' = [op |-> "save", address |-> a, baseDir |-> DataDirectory,
                            levels |-> Levels(NoLevels), filePath |-> filePath,
                            result |-> TRUE]
    /\ UNCHANGED <<running, totalFiles>>

\* the process ends; the data directory stays
StoreStop ==
    /\ UNCHANGED exceptStore
    /\ running
    /\ running' = FALSE
    /\ totalFiles' = <<>>
    /\ scall' = NoStoreCall
    /\ UNCHANGED <<md5, dirs, files, wrote>>

NextStore ==
    \/ StoreStart
    \/ ContractFileExists
    \/ SaveContractData
    \/ StoreStop

\* the identifiers, roots and depths the store functions are called with
\* outside the IndexerService: one address with and without the prefix EQ
\* and a second address; ./data and data; no depth, 2 and 3
StoredAddresses == { <<48, 58, 97, 48>>, <<69, 81, 48, 58, 97, 48>>, <<48, 58, 48, 65>> }
StoredDepths == {NoLevels, MIN_DIRECTORY_LEVELS, MIN_DIRECTORY_LEVELS + 1}

\* contractFileExists(dataDirectory, rawAddress, directoryLevels)
ContractFileExistsAt ==
    /\ UNCHANGED exceptStore
    /\ ~running
    /\ \E a \in StoredAddresses, b \in BaseDirs, d \in StoredDepths, h \in Digests :
          LET filePath == getFilePath(a, b, d, h)
          IN  /\ Hashed(a, h)
              /\ scall' = [op |-> "exists", address |-> a, baseDir |-> b,
                            levels |-> Levels(d), filePath |-> filePath,
                            result |-> filePath \in files]
    /\ UNCHANGED <<running, totalFiles, dirs, files, wrote>>

\* saveContractData(dataDirectory, rawAddress, data, logger, directoryLevels)
\* resolves
SaveContractDataAt ==
    /\ UNCHANGED exceptStore
    /\ ~running
    /\ Cardinality(files) < MaxStored
    /\ \E a \in StoredAddresses, b \in BaseDirs, d \in StoredDepths, h \in Digests :
          LET filePath == prepareFilePath(a, b, d, h)
              dirPath == getDirectoryPath(a, b, d, h)
          IN  /\ Hashed(a, h)
              /\ dirs' = ensureDirectoryExists(dirs, dirPath)
              /\ files' = files \cup {filePath}
              /\ wrote' = wrote \cup {WrittenAs(a, b, d)}
              /\ scall' = [op |-> "save", address |-> a, baseDir |-> b,
                            levels |-> Levels(d), filePath |-> filePath,
                            result |-> TRUE]
    /\ UNCHANGED <<running, totalFiles>>

NextStoreAt ==
    \/ ContractFileExistsAt
    \/ SaveContractDataAt

(***************************************************************************)
(* The address filter (AddressFilter)                                      *)
(***************************************************************************)
\* a string of n characters c
Rep(c, n) == [i \in 1..n |-> c]

\* String.prototype.startsWith
StartsWith(str, prefix) ==
    Len(str) >= Len(prefix) /\ SubSeq(str, 1, Len(prefix)) = prefix

\* the characters of str from position i (from 1) on are n or more times c
RunAt(str, i, c, n) ==
    /\ i >= 1
    /\ i + n - 1 <= Len(str)
    /\ \A j \in i..(i + n - 1) : str[j] = c

\* the character class [0-9a-f]
LowerHex == (48..57) \cup (97..102)

\* the characters of str from i to j are all of the class
AllIn(str, i, j, class) == \A k \in i..j : str[k] \in class

\* (hash.match(/0/g) || []).length
ZeroCount(hash) == Cardinality({ i \in DOMAIN hash : hash[i] = 48 })

\* zeroCount / hash.length > percent / 100; 0 / 0 is NaN, and NaN > x is false
ZeroPercentageAbove(hash, percent) ==
    Len(hash) > 0 /\ ZeroCount(hash) * 100 > percent * Len(hash)

\* the texts -2: and -1:
ReservedShardPrefix == <<45, 50, 58>>
MasterchainPrefix == <<45, 49, 58>>

\* isMasterchainSystemAddress: hash.length !== 64
InvalidLength(hash) == Len(hash) /= 64

\* isMasterchainSystemAddress: zeroPercentage > 0.55
MasterchainZeroHeavy(hash) == ZeroPercentageAbove(hash, 55)

\* isMasterchainSystemAddress: one of systemPatterns matches
SystemPattern(hash) ==
    \/ RunAt(hash, 1, 48, 20)
    \/ RunAt(hash, 1, 48, 23)
    \/ RunAt(hash, 1, 102, 13)
    \/ RunAt(hash, Len(hash) - 10, 102, 11)
    \/ \E i \in 10..Len(hash) : AllIn(hash, 1, i, LowerHex) /\ RunAt(hash, i + 1, 48, 20)
    \/ \E i \in 1..Len(hash) :
          /\ RunAt(hash, i, 48, 15)
          /\ Len(hash) - (i + 14) >= 5
          /\ AllIn(hash, i + 15, Len(hash), LowerHex)
    \/ /\ RunAt(hash, 1, 48, 25)
       /\ Len(hash) >= 35
       /\ AllIn(hash, 26, Len(hash), LowerHex)

\* hash.match(/.{8}/g) || []
Chunks(hash) == [k \in 1..(Len(hash) \div 8) |-> SubSeq(hash, 8 * k - 7, 8 * k)]

\* isMasterchainSystemAddress: chunks.length >= 8 && uniqueChunks.size <= 2
FewUniqueChunks(hash) ==
    LET chunks == Chunks(hash) IN
    Len(chunks) >= 8 /\ Cardinality({ chunks[k] : k \in DOMAIN chunks }) <= 2

isMasterchainSystemAddress(rawAddress) ==
    IF StartsWith(rawAddress, ReservedShardPrefix) THEN TRUE
    ELSE IF ~StartsWith(rawAddress, MasterchainPrefix) THEN FALSE
    ELSE LET hash == SubSeq(rawAddress, 4, Len(rawAddress)) IN
         IF InvalidLength(hash) THEN TRUE
         ELSE IF MasterchainZeroHeavy(hash) THEN TRUE
         ELSE IF SystemPattern(hash) THEN TRUE
         ELSE FewUniqueChunks(hash)

\* the positions of the colons of the address
Colons(rawAddress) == { i \in DOMAIN rawAddress : rawAddress[i] = 58 }

\* isZeroHeavyAddress: rawAddress.split(':') must give two parts; the threshold
\* is 0.8 for the shards -1 and -2 and 0.75 for any other
isZeroHeavyAddress(rawAddress) ==
    IF Cardinality(Colons(rawAddress)) /= 1 THEN FALSE
    ELSE LET c == CHOOSE i \in Colons(rawAddress) : TRUE
             shard == SubSeq(rawAddress, 1, c - 1)
             hash == SubSeq(rawAddress, c + 1, Len(rawAddress))
         IN  IF shard \in { <<45, 49>>, <<45, 50>> }
             THEN ZeroPercentageAbove(hash, 80)
             ELSE ZeroPercentageAbove(hash, 75)

\* isShortAddress
isShortAddress(rawAddress) == Len(rawAddress) < 10

(***************************************************************************)
(* Custom patterns.  A pattern of the model is a literal text, anchored at *)
(* the start when it begins with ^; a pattern with an unclosed ( is not a  *)
(* regular expression: new RegExp throws and matchesPattern returns false. *)
(***************************************************************************)
InvalidRegExp(pattern) == \E i \in DOMAIN pattern : pattern[i] = 40

\* str has the text at position i
TextAt(str, i, text) ==
    i + Len(text) - 1 <= Len(str) /\ SubSeq(str, i, i + Len(text) - 1) = text

\* regex.test(rawAddress)
RegExpTest(pattern, rawAddress) ==
    IF pattern /= <<>> /\ Head(pattern) = 94
    THEN TextAt(rawAddress, 1, Tail(pattern))
    ELSE \E i \in 1..(Len(rawAddress) + 1) : TextAt(rawAddress, i, pattern)

\* a filter that fails closed: an invalid pattern matches every address
matchesPatternFailClosed(rawAddress, pattern) ==
    InvalidRegExp(pattern) \/ RegExpTest(pattern, rawAddress)

matchesPattern(rawAddress, pattern) ==
    IF InvalidRegExp(pattern) THEN FALSE ELSE RegExpTest(pattern, rawAddress)

\* the skip reasons: a fixed text, or custom_pattern: followed by the pattern
Reason(tag) == [tag |-> tag, pattern |-> <<>>]
CustomReason(pattern) == [tag |-> "custom_pattern", pattern |-> pattern]
NoReason == Reason("none")

RECURSIVE FirstMatching(_, _)
\* the loop over customSkipPatterns: the first pattern that matches, or none
FirstMatching(rawAddress, ps) ==
    IF ps = <<>> THEN NoReason
    ELSE IF matchesPattern(rawAddress, Head(ps)) THEN CustomReason(Head(ps))
         ELSE FirstMatching(rawAddress, Tail(ps))

\* the reason shouldProcessAddress passes to skipAddress, NoReason when the
\* address is to be processed
SkipReasonOf(rawAddress, ps) ==
    IF isMasterchainSystemAddress(rawAddress) THEN Reason("masterchain_system")
    ELSE IF isZeroHeavyAddress(rawAddress) THEN Reason("zero_heavy")
    ELSE IF isShortAddress(rawAddress) THEN Reason("too_short")
    ELSE FirstMatching(rawAddress, ps)

\* the FilterResult shouldProcessAddress returns
FilterResult(rawAddress, ps) ==
    LET reason == SkipReasonOf(rawAddress, ps) IN
    [address |-> rawAddress, shouldProcess |-> reason = NoReason, skipReason |-> reason]

\* statistics that count a skip without its reason
StatsWithoutReason(st, reason) ==
    IF reason = NoReason
    THEN [st EXCEPT !.total = @ + 1, !.processed = @ + 1]
    ELSE [st EXCEPT !.total = @ + 1, !.skipped = @ + 1]

\* this.stats after shouldProcessAddress returned with this reason
StatsAfter(st, reason) ==
    IF reason = NoReason
    THEN [st EXCEPT !.total = @ + 1, !.processed = @ + 1]
    ELSE [st EXCEPT !.total = @ + 1,
                    !.skipped = @ + 1,
                    !.skipReasons =
                        IF reason \in DOMAIN @
                        THEN [@ EXCEPT ![reason] = @ + 1]
                        ELSE (reason :> 1) @@ @]

(***************************************************************************)
(* The addresses and the configurations the filter is run on               *)
(***************************************************************************)
\* 64 hex characters without a zero, all 8-character chunks different
DiverseHash == [i \in 1..64 |-> HexChar(1 + ((i * 7) % 15))]

\* 64 hex characters, two of three being zeros (67%), in runs of two
SpreadZerosHash == [i \in 1..64 |-> IF i % 3 = 0 THEN 97 ELSE 48]

\* 64 hex characters, four of five being zeros (81%), in runs of four
DenseZerosHash == [i \in 1..64 |-> IF i % 5 = 0 THEN 97 ELSE 48]

\* 13 times f, then characters without a zero
ManyFsHash == Rep(102, 13) \o SubSeq(DiverseHash, 14, 64)

\* the same 8 characters 8 times
RepeatedChunkHash == [i \in 1..64 |-> HexChar(1 + (i % 8))]

FilterAddresses ==
    { ReservedShardPrefix \o DiverseHash,
      ReservedShardPrefix \o <<97, 98>>,
      MasterchainPrefix \o <<97, 98>>,
      MasterchainPrefix \o DiverseHash,
      MasterchainPrefix \o SpreadZerosHash,
      MasterchainPrefix \o DenseZerosHash,
      MasterchainPrefix \o ManyFsHash,
      MasterchainPrefix \o RepeatedChunkHash,
      <<48, 58>> \o DiverseHash,
      <<48, 58>> \o SpreadZerosHash,
      <<48, 58>> \o DenseZerosHash,
      <<48, 58>> \o RepeatedChunkHash,
      <<48, 58, 97, 98>>,
      <<48, 58, 48, 48>>,
      <<48, 58>>,
      <<97, 98>> }

\* the patterns ^0: and e6, and the invalid pattern (
CustomPatterns == { <<94, 48, 58>>, <<101, 54>>, <<40>> }

\* CUSTOM_SKIP_PATTERNS: no pattern, one pattern, or the invalid pattern
\* followed by a valid one
PatternLists ==
    {<<>>} \cup { <<q>> : q \in CustomPatterns }
           \cup { <<<<40>>, q>> : q \in CustomPatterns \ { <<40>> } }

NoStats ==
    [total |-> 0, processed |-> 0, skipped |-> 0, skipReasons |-> [x \in {} |-> 0]]

NoFilterResult == [address |-> <<>>, shouldProcess |-> FALSE, skipReason |-> NoReason]

InitFilter ==
    /\ patterns = <<>>
    /\ stats = NoStats
    /\ fresult = NoFilterResult
    /\ fcalls = 0

\* the IndexerService constructor: createDefaultAddressFilterConfig and
\* new AddressFilter
NewAddressFilter ==
    /\ UNCHANGED exceptFilter
    /\ patterns' \in PatternLists
    /\ stats' = NoStats
    /\ fresult' = NoFilterResult
    /\ fcalls' = 0

\* shouldProcessAddress(rawAddress), with the statistics it updates
ShouldProcessAddress ==
    /\ UNCHANGED exceptFilter
    /\ stats.total < MaxFilterCalls
    /\ \E a \in FilterAddresses :
          /\ fresult' = FilterResult(a, patterns)
          /\ stats' = StatsAfter(stats, SkipReasonOf(a, patterns))
    /\ fcalls' = fcalls + 1
    /\ UNCHANGED patterns

\* resetStats
ResetStats ==
    /\ UNCHANGED exceptFilter
    /\ stats' = NoStats
    /\ fcalls' = 0
    /\ UNCHANGED <<patterns, fresult>>

NextFilter ==
    \/ NewAddressFilter
    \/ ShouldProcessAddress
    \/ ResetStats

(***************************************************************************)
(* One runIteration in detail: the calls every processAccount makes, the   *)
(* ProcessingResult it returns, and the BatchSummary compiled from them.   *)
(* The process is not killed here; a call can fail instead.                *)
(***************************************************************************)
\* the identifiers of the pages: two the filter keeps and one it skips
BatchAddresses == { <<0, 1>>, <<0, 2>>, <<-2, 1>> }

\* response.allAccounts.nodes: up to MaxBatch identifiers, repeats allowed
BatchPages == UNION { [1..n -> BatchAddresses] : n \in 0..MaxBatch }

\* response.allAccounts.pageInfo
PageInfos == [hasNextPage : BOOLEAN, endCursor : {Null, <<>>, Token(1)}]

\* an optional string (error?: string): undefined, or a text that may be empty
Undefined == [defined |-> FALSE, text |-> ""]
Text(t) == [defined |-> TRUE, text |-> t]

\* JavaScript truthiness of an optional string
TruthyText(e) == e.defined /\ e.text /= ""

\* message of the error inspectContract throws (RestClient.handleError)
InspectMessage == "API error (500): HTTP 500"

\* message of the error saveContractData throws
SaveMessage == "Failed to save contract data"

\* message of an error thrown inside the try block of processAccount by
\* anything but the two calls above: the catch block copies error.message
\* (or String(error)) as it is, and that text can be empty
EmptyMessage == ""

\* the ProcessingResults processAccount returns
FilteredResult(a) ==
    [address |-> a, success |-> TRUE, skipped |-> TRUE,
     error |-> Text("Filtered: masterchain_system")]
ExistingResult(a) ==
    [address |-> a, success |-> TRUE, skipped |-> TRUE, error |-> Undefined]
SavedResult(a) ==
    [address |-> a, success |-> TRUE, skipped |-> FALSE, error |-> Undefined]
FailedResult(a, errorMessage) ==
    [address |-> a, success |-> FALSE, skipped |-> FALSE, error |-> Text(errorMessage)]

NoProcessingResult ==
    [address |-> <<>>, success |-> FALSE, skipped |-> FALSE, error |-> Undefined]

\* a processAccount call waiting in pLimit
QueuedJob == [at |-> "queued", calls |-> <<>>, result |-> NoProcessingResult]

\* the positions of the jobs, with the names of the task states
JobStates(js) == [i \in DOMAIN js |-> js[i].at]

\* the results Promise.all hands to runIteration, in the order of the nodes
ResultsOf(js) == [i \in DOMAIN js |-> js[i].result]

\* number of results with the property
CountOf(results, Has(_)) == Cardinality({ i \in DOMAIN results : Has(results[i]) })

IsSuccessful(result) == result.success /\ ~result.skipped
IsSkipped(result) == result.success /\ result.skipped
IsFailed(result) == ~result.success

\* compileBatchSummary: the result is pushed to errors if (result.error)
Reported(result) == IsFailed(result) /\ TruthyText(result.error)

\* the entry compileBatchSummary pushes for a result
ErrorEntry(result) == [address |-> result.address, error |-> result.error.text]

\* summary.errors
ErrorsOf(results) ==
    LET pushed == SelectSeq(results, Reported)
    IN  [i \in DOMAIN pushed |-> ErrorEntry(pushed[i])]

\* a summary that does not count the skipped results
SkippedNotCounted(results) == 0

\* summary.skipped
SkippedOf(results) == CountOf(results, IsSkipped)

compileBatchSummary(results) ==
    [total |-> Len(results),
     successful |-> CountOf(results, IsSuccessful),
     failed |-> CountOf(results, IsFailed),
     skipped |-> SkippedOf(results),
     errors |-> ErrorsOf(results)]

\* a summary that counts one identifier
SummaryOfOne ==
    [total |-> 1, successful |-> 0, failed |-> 0, skipped |-> 1, errors |-> <<>>]

\* the summary runIteration returns for a page without nodes
EmptySummary ==
    [total |-> 0, successful |-> 0, failed |-> 0, skipped |-> 0, errors |-> <<>>]

NoOutcome ==
    [kind |-> "none", summary |-> EmptySummary, hasNextPage |-> FALSE,
     endCursor |-> Null, message |-> ""]

\* runIteration returns an IterationResult
Returned(summary, hasNextPage, endCursor) ==
    [kind |-> "returned", summary |-> summary, hasNextPage |-> hasNextPage,
     endCursor |-> endCursor, message |-> ""]

\* runIteration throws
Threw(message) == [NoOutcome EXCEPT !.kind = "threw", !.message = message]

\* the IterationResult for a page without nodes: hasNextPage false, endCursor null
EmptyPageResult(pi) == Returned(EmptySummary, FALSE, Null)

\* the IterationResult after the batch
BatchResult(js, pi) ==
    Returned(compileBatchSummary(ResultsOf(js)), pi.hasNextPage, pi.endCursor)

InitBatch ==
    /\ stage = "idle"
    /\ slots = 1
    /\ dataDir = FALSE
    /\ cursorTxt = NoFile
    /\ contracts = {}
    /\ accounts = <<>>
    /\ reported = NoPageInfo
    /\ jobs = <<>>
    /\ outcome = NoOutcome

\* runIteration is called: ensureDataDirectory creates the data directory
\* and readCursor reads the cursor file, then fetchAccounts is awaited
RunIterationBegins ==
    /\ UNCHANGED exceptBatch
    /\ stage = "idle"
    /\ slots' \in 1..MaxConc
    /\ dataDir' = TRUE
    /\ stage' = "fetch"
    /\ UNCHANGED <<cursorTxt, contracts, accounts, reported, jobs, outcome>>

\* ensureDataDirectory or readCursor throws: runIteration throws
SetupFails ==
    /\ UNCHANGED exceptBatch
    /\ stage = "idle"
    /\ \E step \in {"ensureDataDirectory", "readCursor"} :
          /\ dataDir' = (dataDir \/ step = "readCursor")
          /\ outcome' = Threw(IF step = "readCursor"
                              THEN "Failed to read cursor file"
                              ELSE "Failed to create data directory")
    /\ stage' = "threw"
    /\ UNCHANGED <<slots, cursorTxt, contracts, accounts, reported, jobs>>

\* fetchAccounts returns a page: a page without nodes ends the iteration,
\* any other page goes to processAccountsBatch, one queued job per node
FetchAccountsReturns ==
    /\ UNCHANGED exceptBatch
    /\ stage = "fetch"
    /\ \E ns \in BatchPages, pi \in PageInfos :
          /\ accounts' = ns
          /\ reported' = pi
          /\ IF Len(ns) = 0
             THEN /\ stage' = "returned"
                  /\ outcome' = EmptyPageResult(pi)
                  /\ UNCHANGED jobs
             ELSE /\ stage' = "batch"
                  /\ jobs' = [i \in 1..Len(ns) |-> QueuedJob]
                  /\ UNCHANGED outcome
    /\ UNCHANGED <<slots, dataDir, cursorTxt, contracts>>

\* a failed fetch that also removes the cursor file
FetchFailsResetsCursor ==
    /\ UNCHANGED exceptBatch
    /\ stage = "fetch"
    /\ stage' = "threw"
    /\ outcome' = Threw("GraphQL request failed")
    /\ cursorTxt' = NoFile
    /\ UNCHANGED <<slots, dataDir, contracts, accounts, reported, jobs>>

\* fetchAccounts throws after its retries: runIteration throws
FetchAccountsFails ==
    /\ UNCHANGED exceptBatch
    /\ stage = "fetch"
    /\ stage' = "threw"
    /\ outcome' = Threw("GraphQL request failed")
    /\ UNCHANGED <<slots, dataDir, cursorTxt, contracts, accounts, reported, jobs>>

\* the job moves on; calls made and result are recorded
SetJob(i, at, made, result) ==
    jobs' = [jobs EXCEPT ![i] = [at |-> at, calls |-> @.calls \o made, result |-> result]]

\* a processAccount that ignores the decision of the filter
FilterIgnored(a) == FALSE

\* processAccount: if (!filterResult.shouldProcess) return the skipped result
SkippedByFilter(a) == ~ShouldProcess(a)

\* pLimit starts the next queued job: processAccount runs the filter; a
\* filtered identifier returns at once, any other awaits contractFileExists
JobStart(i) ==
    /\ UNCHANGED exceptBatch
    /\ stage = "batch"
    /\ NextQueued(JobStates(jobs), i)
    /\ CanStart(JobStates(jobs), slots)
    /\ LET a == accounts[i]
       IN  IF SkippedByFilter(a)
           THEN SetJob(i, "skipped", <<"shouldProcessAddress">>, FilteredResult(a))
           ELSE SetJob(i, "exists", <<"shouldProcessAddress", "contractFileExists">>,
                       NoProcessingResult)
    /\ UNCHANGED <<stage, slots, dataDir, cursorTxt, contracts, accounts, reported,
                   outcome>>

\* a contractFileExists that finds no file
NeverStored(a, stored) == FALSE

\* contractFileExists: the contract file of the identifier exists
AlreadyStored(a, stored) == a \in stored

\* contractFileExists resolves: an existing file returns the skipped result,
\* otherwise inspectContract is awaited
JobExists(i) ==
    /\ UNCHANGED exceptBatch
    /\ stage = "batch"
    /\ i \in DOMAIN jobs
    /\ jobs[i].at = "exists"
    /\ LET a == accounts[i]
       IN  IF AlreadyStored(a, contracts)
           THEN SetJob(i, "skipped", <<>>, ExistingResult(a))
           ELSE SetJob(i, "inspect", <<"inspectContract">>, NoProcessingResult)
    /\ UNCHANGED <<stage, slots, dataDir, cursorTxt, contracts, accounts, reported,
                   outcome>>

\* inspectContract returns the contract data: saveContractData is awaited
JobInspected(i) ==
    /\ UNCHANGED exceptBatch
    /\ stage = "batch"
    /\ i \in DOMAIN jobs
    /\ jobs[i].at = "inspect"
    /\ SetJob(i, "write", <<"saveContractData">>, NoProcessingResult)
    /\ UNCHANGED <<stage, slots, dataDir, cursorTxt, contracts, accounts, reported,
                   outcome>>

\* saveContractData returns the path of the file it wrote
JobSaved(i) ==
    /\ UNCHANGED exceptBatch
    /\ stage = "batch"
    /\ i \in DOMAIN jobs
    /\ jobs[i].at = "write"
    /\ contracts' = contracts \cup {accounts[i]}
    /\ SetJob(i, "saved", <<>>, SavedResult(accounts[i]))
    /\ UNCHANGED <<stage, slots, dataDir, cursorTxt, accounts, reported, outcome>>

\* the try block of processAccount throws and the catch block returns a
\* failed result: inspectContract throws after its retries, saveContractData
\* throws (the file may have been created), or something else throws
JobFails(i) ==
    /\ UNCHANGED exceptBatch
    /\ stage = "batch"
    /\ i \in DOMAIN jobs
    /\ jobs[i].at \in {"inspect", "write"}
    /\ \E errorMessage \in
             {EmptyMessage, IF jobs[i].at = "inspect" THEN InspectMessage ELSE SaveMessage} :
          SetJob(i, "failed", <<>>, FailedResult(accounts[i], errorMessage))
    /\ \E created \in BOOLEAN :
          contracts' = IF created /\ jobs[i].at = "write"
                       THEN contracts \cup {accounts[i]}
                       ELSE contracts
    /\ UNCHANGED <<stage, slots, dataDir, cursorTxt, accounts, reported, outcome>>

\* a batch that also ends at the first failed result
BatchAborts(js) ==
    AllSettled(JobStates(js)) \/ \E i \in DOMAIN js : js[i].at = "failed"

\* Promise.all(tasks): processAccount never rejects, so the batch resolves
\* when every job has returned its result
BatchResolved(js) == AllSettled(JobStates(js))

\* a runIteration that keeps the cursor when a job of the page failed
SavesCursorUnlessFailed(pi, js) ==
    Truthy(pi.endCursor) /\ \A i \in DOMAIN js : js[i].at /= "failed"

\* if (pageInfo.endCursor) saveCursor: the results of the jobs play no part
SavesCursor(pi, js) == Truthy(pi.endCursor)

\* await processAccountsBatch resolves: with an endCursor saveCursor is
\* awaited, without one runIteration compiles the summary and returns
BatchResolves ==
    /\ UNCHANGED exceptBatch
    /\ stage = "batch"
    /\ BatchResolved(jobs)
    /\ IF SavesCursor(reported, jobs)
       THEN /\ stage' = "saveCursor"
            /\ UNCHANGED outcome
       ELSE /\ stage' = "returned"
            /\ outcome' = BatchResult(jobs, reported)
    /\ UNCHANGED <<slots, dataDir, cursorTxt, contracts, accounts, reported, jobs>>

\* saveCursor resolves; runIteration compiles the summary and returns
SaveCursorReturns ==
    /\ UNCHANGED exceptBatch
    /\ stage = "saveCursor"
    /\ cursorTxt' = WriteAll(cursorTxt, reported.endCursor)
    /\ stage' = "returned"
    /\ outcome' = BatchResult(jobs, reported)
    /\ UNCHANGED <<slots, dataDir, contracts, accounts, reported, jobs>>

\* saveCursor throws (fs.ensureDir or fs.writeFile failed, the file may have
\* been truncated): runIteration throws
SaveCursorFails ==
    /\ UNCHANGED exceptBatch
    /\ stage = "saveCursor"
    /\ cursorTxt' \in {cursorTxt, OpenTruncate(cursorTxt)}
    /\ stage' = "threw"
    /\ outcome' = Threw("Failed to save cursor")
    /\ UNCHANGED <<slots, dataDir, contracts, accounts, reported, jobs>>

\* the caller takes the result or the error; the locals of the call are gone
RunIterationEnds ==
    /\ UNCHANGED exceptBatch
    /\ stage \in {"returned", "threw"}
    /\ stage' = "idle"
    /\ accounts' = <<>>
    /\ reported' = NoPageInfo
    /\ jobs' = <<>>
    /\ outcome' = NoOutcome
    /\ UNCHANGED <<slots, dataDir, cursorTxt, contracts>>

JobStep ==
    \E i \in 1..MaxBatch :
        \/ JobStart(i)
        \/ JobExists(i)
        \/ JobInspected(i)
        \/ JobSaved(i)
        \/ JobFails(i)

NextBatch ==
    \/ RunIterationBegins
    \/ SetupFails
    \/ FetchAccountsReturns
    \/ FetchAccountsFails
    \/ JobStep
    \/ BatchResolves
    \/ SaveCursorReturns
    \/ SaveCursorFails
    \/ RunIterationEnds

(***************************************************************************)
(* The process and its run modes.  runIteration is one step here: it is    *)
(* started, and later it returns an IterationResult or throws.  A signal   *)
(* handler or a timer runs only while the process awaits: during an        *)
(* iteration, or between two iterations.                                   *)
(***************************************************************************)
RunModes == {"iteration", "complete", "infinite", "timed"}

\* what can throw out of runIteration
IterationErrors == {"fetchAccounts", "saveCursor"}

InitModes ==
    /\ proc = "stopped"
    /\ runMode = "iteration"
    /\ isShuttingDown = FALSE
    /\ morePages = TRUE
    /\ iterationCount = 0
    /\ clock = "plenty"
    /\ cursorSaved = FALSE
    /\ cursorLost = FALSE

\* process.exit, or main returns: the memory of the process is gone
ProcessEnds ==
    /\ proc' = "stopped"
    /\ runMode' = "iteration"
    /\ isShuttingDown' = FALSE
    /\ morePages' = TRUE
    /\ iterationCount' = 0
    /\ clock' = "plenty"
    /\ cursorLost' = FALSE

\* main: the process starts, installs the signal handlers and enters the
\* run mode given on the command line; in the same turn of the event loop the
\* driver calls runIteration for the first time
MainStarts ==
    /\ UNCHANGED exceptModes
    /\ proc = "stopped"
    /\ runMode' \in RunModes
    /\ proc' = "iterating"
    /\ iterationCount' = 1
    /\ UNCHANGED <<isShuttingDown, morePages, clock, cursorSaved, cursorLost>>

\* the condition under which the driver calls runIteration once more: none
\* in single iteration mode, while (hasNextPage) in runComplete,
\* while (!shouldStop()) in runInfiniteMode, and in runTimedMode
\* while (!shouldStop() && Date.now() < endTime) with at least 30 seconds left
LoopEnters(m, stopping, more, left) ==
    CASE m = "iteration" -> FALSE
      [] m = "complete" -> more
      [] m = "infinite" -> ~stopping
      [] m = "timed" -> ~stopping /\ left = "plenty"

\* the await between two iterations (readCursor, sleep) is over and the
\* driver calls runIteration again
IterationStarts ==
    /\ UNCHANGED exceptModes
    /\ proc = "between"
    /\ iterationCount < MaxIterations
    /\ LoopEnters(runMode, isShuttingDown, morePages, clock)
    /\ proc' = "iterating"
    /\ iterationCount' = iterationCount + 1
    /\ UNCHANGED <<runMode, isShuttingDown, morePages, clock, cursorSaved, cursorLost>>

\* the loop condition is false, or runTimedMode breaks with less than 30
\* seconds left: the driver returns to main, which returns
LoopExits ==
    /\ UNCHANGED exceptModes
    /\ proc = "between"
    /\ ~LoopEnters(runMode, isShuttingDown, morePages, clock)
    /\ ProcessEnds
    /\ UNCHANGED cursorSaved

\* the driver catches the error of runIteration, waits and goes on with its
\* loop (runInfiniteMode, runTimedMode); runComplete rethrows it and main
\* ends the process, as it does in single iteration mode
ContinuesAfterError(m) == m \in {"infinite", "timed"}

\* runIteration returns: the cursor is on disk if the page had an endCursor;
\* single iteration mode ends, runComplete reads the cursor back and sleeps,
\* runInfiniteMode sleeps, runTimedMode breaks if the result has no next page
\* and sleeps otherwise
IterationReturns ==
    /\ UNCHANGED exceptModes
    /\ proc = "iterating"
    /\ \E saved \in BOOLEAN, resultHasNextPage \in BOOLEAN :
          /\ cursorSaved' = (cursorSaved \/ saved)
          /\ CASE runMode = "iteration" -> ProcessEnds
               [] runMode = "complete" ->
                     /\ morePages' = (morePages /\ cursorSaved')
                     /\ proc' = "between"
                     /\ UNCHANGED <<runMode, isShuttingDown, iterationCount, clock,
                                    cursorLost>>
               [] runMode = "infinite" ->
                     /\ proc' = "between"
                     /\ UNCHANGED <<runMode, isShuttingDown, morePages,
                                    iterationCount, clock, cursorLost>>
               [] runMode = "timed" ->
                     /\ IF resultHasNextPage
                        THEN /\ proc' = "between"
                             /\ UNCHANGED <<runMode, isShuttingDown, morePages,
                                            iterationCount, clock, cursorLost>>
                        ELSE ProcessEnds

\* runIteration throws
IterationThrows ==
    /\ UNCHANGED exceptModes
    /\ proc = "iterating"
    /\ \E error \in IterationErrors :
          IF ContinuesAfterError(runMode)
          THEN /\ proc' = "between"
               /\ cursorLost' = (cursorLost \/ error = "saveCursor")
               /\ UNCHANGED <<runMode, isShuttingDown, morePages, iterationCount,
                              clock>>
          ELSE ProcessEnds
    /\ UNCHANGED cursorSaved

\* SIGINT or SIGTERM: the first signal sets isShuttingDown and arms the
\* timer of 5 seconds, a second signal ends the process
Shutdown ==
    /\ UNCHANGED exceptModes
    /\ proc /= "stopped"
    /\ IF isShuttingDown
       THEN ProcessEnds
       ELSE /\ isShuttingDown' = TRUE
            /\ UNCHANGED <<proc, runMode, morePages, iterationCount, clock,
                           cursorLost>>
    /\ UNCHANGED cursorSaved

\* the timer armed by the first signal fires: process.exit(0)
GraceEnds ==
    /\ UNCHANGED exceptModes
    /\ proc /= "stopped"
    /\ isShuttingDown
    /\ ProcessEnds
    /\ UNCHANGED cursorSaved

\* time passes in runTimedMode: less than 30 seconds are left, then none
TimePasses ==
    /\ UNCHANGED exceptModes
    /\ proc /= "stopped"
    /\ runMode = "timed"
    /\ clock /= "expired"
    /\ clock' = IF clock = "plenty" THEN "under30s" ELSE "expired"
    /\ UNCHANGED <<proc, runMode, isShuttingDown, morePages, iterationCount,
                   cursorSaved, cursorLost>>

NextModes ==
    \/ MainStarts
    \/ IterationStarts
    \/ LoopExits
    \/ IterationReturns
    \/ IterationThrows
    \/ Shutdown
    \/ GraceEnds
    \/ TimePasses

(***************************************************************************)
(* loadConfig (config) as main calls it.  A number is a record: nan says   *)
(* the value is NaN, and every comparison with NaN is false.               *)
(***************************************************************************)
\* the characters of the values of the environment: "-", ".", "0", "1", "9", "a"
EnvChars == {45, 46, 48, 49, 57, 97}

\* the values of one environment variable; Null is a variable that is not set
EnvValues == UNION { [1..n -> EnvChars] : n \in 0..MaxEnvLen } \cup {Null}

\* the environment variables loadConfig validates as numbers
EnvNames == {"MAX_CONCURRENT_REQUESTS", "ACCOUNTS_PER_PAGE", "MAX_RETRIES"}

\* the text loadConfig parses for a variable that is unset or empty
DefaultText(name) ==
    CASE name = "MAX_CONCURRENT_REQUESTS" -> <<52>>
      [] name = "ACCOUNTS_PER_PAGE" -> <<49, 48, 48>>
      [] name = "MAX_RETRIES" -> <<51>>

\* an environment with the API key given or not, and no other variable set
BareEnv(key) ==
    [TONAPI_KEY |-> key, MAX_CONCURRENT_REQUESTS |-> Null,
     ACCOUNTS_PER_PAGE |-> Null, MAX_RETRIES |-> Null]

NotANumber == [nan |-> TRUE, value |-> 0]

Number(n) == [nan |-> FALSE, value |-> n]

\* x < n, x <= n and x > n of JavaScript
Less(x, n) == ~x.nan /\ x.value < n

LessOrEqual(x, n) == ~x.nan /\ x.value <= n

Greater(x, n) == ~x.nan /\ x.value > n

RECURSIVE SkipWhiteSpace(_)
SkipWhiteSpace(s) ==
    IF s /= <<>> /\ Head(s) \in WhiteSpace THEN SkipWhiteSpace(Tail(s)) ELSE s

\* parseInt(s, 10): leading white space is skipped, a sign is read, then the
\* longest run of digits; whatever follows is ignored, and without a digit
\* the value is NaN
ParseInteger(s) ==
    LET t == SkipWhiteSpace(s)
        signed == t /= <<>> /\ Head(t) \in {43, 45}
        digits == DigitRun(IF signed THEN Tail(t) ELSE t)
    IN  IF digits = <<>> THEN NotANumber
        ELSE IF signed /\ Head(t) = 45 THEN Number(0 - DecimalValue(digits))
        ELSE Number(DecimalValue(digits))

\* process.env[name] || default
OrDefault(e, name) == IF Truthy(e[name]) THEN e[name] ELSE DefaultText(name)

NotLoaded == [kind |-> "none", message |-> "", configuration |-> <<>>]

ConfigError(message) == [NotLoaded EXCEPT !.kind = "threw", !.message = message]

Configuration(e) ==
    [maxConcurrentRequests |-> ParseInteger(OrDefault(e, "MAX_CONCURRENT_REQUESTS")),
     accountsPerPage |-> ParseInteger(OrDefault(e, "ACCOUNTS_PER_PAGE")),
     maxRetries |-> ParseInteger(OrDefault(e, "MAX_RETRIES"))]

loadConfig(e) ==
    LET configuration == Configuration(e)
    IN  IF ~e.TONAPI_KEY
          THEN ConfigError("Required environment variable TONAPI_KEY is not set")
        ELSE IF \/ LessOrEqual(configuration.maxConcurrentRequests, 0)
                \/ Greater(configuration.maxConcurrentRequests, 10)
          THEN ConfigError("MAX_CONCURRENT_REQUESTS must be between 1 and 10")
        ELSE IF \/ LessOrEqual(configuration.accountsPerPage, 0)
                \/ Greater(configuration.accountsPerPage, 1000)
          THEN ConfigError("ACCOUNTS_PER_PAGE must be between 1 and 1000")
        ELSE IF \/ Less(configuration.maxRetries, 0)
                \/ Greater(configuration.maxRetries, 10)
          THEN ConfigError("MAX_RETRIES must be between 0 and 10")
        ELSE [NotLoaded EXCEPT !.kind = "returned", !.configuration = configuration]

InitConfig ==
    /\ env = BareEnv(FALSE)
    /\ loaded = NotLoaded
    /\ indexer = FALSE

\* main up to the construction of the IndexerService: the process starts
\* with some environment, loadConfig runs, and the IndexerService is made
\* when loadConfig returned; when it threw, main logs and exits
MainLoadsConfig ==
    /\ UNCHANGED exceptConfig
    /\ loaded.kind = "none"
    /\ \E key \in BOOLEAN, name \in EnvNames, v \in EnvValues :
         env' = [BareEnv(key) EXCEPT ![name] = v]
    /\ loaded' = loadConfig(env')
    /\ indexer' = (loaded'.kind = "returned")

\* the process ends
ConfigProcessEnds ==
    /\ UNCHANGED exceptConfig
    /\ loaded.kind /= "none"
    /\ env' = BareEnv(FALSE)
    /\ loaded' = NotLoaded
    /\ indexer' = FALSE

NextConfig ==
    \/ MainLoadsConfig
    \/ ConfigProcessEnds

(***************************************************************************)
(* readCursor and saveCursor (fileUtils) on a file of bytes.  A text is    *)
(* written and read as UTF-8.                                              *)
(***************************************************************************)
\* the characters of a cursor: line feed, space, "a" and "é"
CursorChars == {10, 32, 97, 233}

CursorTexts == UNION { [1..n -> CursorChars] : n \in 0..MaxCursorLen }

\* the bytes of a file someone else wrote: those of the characters above
FileBytes == {10, 32, 97, 195, 169}

\* the cursor file before the process touches it: absent, or any bytes
CursorFiles ==
    {NoFile} \cup
    { WriteAll(NoFile, d) : d \in UNION { [1..n -> FileBytes] : n \in 0..MaxCursorLen } }

RECURSIVE Utf8Encode(_)
\* the UTF-8 bytes of a text: one byte below U+0080, two below U+0800
Utf8Encode(s) ==
    IF s = <<>> THEN <<>>
    ELSE (IF Head(s) < 128 THEN <<Head(s)>>
          ELSE <<192 + (Head(s) \div 64), 128 + (Head(s) % 64)>>)
         \o Utf8Encode(Tail(s))

RECURSIVE Utf8Decode(_)
\* the text of UTF-8 bytes; a byte that starts no valid sequence decodes to
\* U+FFFD
Utf8Decode(b) ==
    IF b = <<>> THEN <<>>
    ELSE IF Head(b) < 128 THEN <<Head(b)>> \o Utf8Decode(Tail(b))
    ELSE IF /\ Head(b) \in 194..223
            /\ Len(b) >= 2
            /\ b[2] \in 128..191
         THEN <<(Head(b) - 192) * 64 + (b[2] - 128)>> \o Utf8Decode(Tail(Tail(b)))
    ELSE <<65533>> \o Utf8Decode(Tail(b))

\* readCursor: null when the file is absent, else trim() || null of its text
ReadCursorFile(f) ==
    IF PathExists(f) THEN OrNull(Trim(Utf8Decode(f.data))) ELSE Null

\* saveCursor, a writeFile that replaces the file by the written text
SaveCursorAppends(f, c) == WriteAll(f, f.data \o Utf8Encode(c))

\* saveCursor: fs.writeFile(filePath, cursor, 'utf-8')
SaveCursorFile(f, c) == WriteAll(f, Utf8Encode(c))

NoCursorCall == [op |-> "none", cursor |-> Null, after |-> Null]

InitCursor ==
    /\ cfile = NoFile
    /\ lastSaved = Null
    /\ cop = NoCursorCall

\* while no indexer runs, the cursor file is removed or edited from outside
CursorFileEdited ==
    /\ UNCHANGED exceptCursor
    /\ cfile' \in CursorFiles
    /\ lastSaved' = Null
    /\ cop' = NoCursorCall

\* saveCursor(c) resolves
SaveCursorCalled ==
    /\ UNCHANGED exceptCursor
    /\ \E c \in CursorTexts \ {<<>>} :
         /\ cfile' = SaveCursorFile(cfile, c)
         /\ lastSaved' = c
         /\ cop' = [op |-> "saveCursor", cursor |-> c, after |-> Null]

\* saveCursor(c) throws: the file is as before, or was opened and truncated
SaveCursorThrows ==
    /\ UNCHANGED exceptCursor
    /\ cfile' \in {cfile, OpenTruncate(cfile)}
    /\ lastSaved' = Null
    /\ cop' = [op |-> "saveCursorFailed", cursor |-> Null, after |-> Null]

\* runIteration reads the cursor and fetchAccounts builds its variables:
\* after is the cursor read, or null (after || null)
RunIterationReads ==
    /\ UNCHANGED exceptCursor
    /\ cop' = [op |-> "runIteration", cursor |-> ReadCursorFile(cfile),
               after |-> OrNull(ReadCursorFile(cfile))]
    /\ UNCHANGED <<cfile, lastSaved>>

NextCursor ==
    \/ CursorFileEdited
    \/ SaveCursorCalled
    \/ SaveCursorThrows
    \/ RunIterationReads

(***************************************************************************)
(* getStats (AddressFilter) and the object it returns.  An object of       *)
(* JavaScript is held by reference: two holders of one object see each     *)
(* other's updates.                                                        *)
(***************************************************************************)
\* skipPercentage: (skipped / total * 100).toFixed(2), in hundredths
SkipPercentage(st) ==
    IF st.total > 0 THEN (20000 * st.skipped + st.total) \div (2 * st.total) ELSE 0

\* getStats: { ...this.stats, skipPercentage }.  The spread copies the three
\* counters and the reference to the skipReasons object
getStats(st) ==
    [total |-> st.total, processed |-> st.processed, skipped |-> st.skipped,
     skipReasons |-> st.skipReasons, skipPercentage |-> SkipPercentage(st)]

\* no snapshot is held.  shared: the skipReasons of the snapshot is the
\* object that is this.stats.skipReasons
NoSnapshot ==
    [taken |-> FALSE, shared |-> FALSE, returned |-> getStats(NoStats),
     seen |-> getStats(NoStats)]

\* the snapshot after this.stats.skipReasons was updated in place
SeenAfter(snap, st) ==
    IF snap.shared THEN [snap EXCEPT !.seen.skipReasons = st.skipReasons] ELSE snap

InitStats ==
    /\ tally = NoStats
    /\ snapshot = NoSnapshot

\* shouldProcessAddress(rawAddress) as far as the statistics go: the counters
\* are incremented, and this.stats.skipReasons is updated in place
StatsCounted ==
    /\ UNCHANGED exceptStats
    /\ tally.total < MaxFilterCalls
    /\ \E a \in FilterAddresses :
          tally' = StatsAfter(tally, SkipReasonOf(a, <<>>))
    /\ snapshot' = SeenAfter(snapshot, tally')

\* resetStats: this.stats is a new object with a new skipReasons; a snapshot
\* keeps the old skipReasons object
StatsReset ==
    /\ UNCHANGED exceptStats
    /\ tally' = NoStats
    /\ snapshot' = [snapshot EXCEPT !.shared = FALSE]

\* getStats returns a snapshot to a caller that keeps it
GetStats ==
    /\ UNCHANGED exceptStats
    /\ snapshot' = [taken |-> TRUE, shared |-> TRUE, returned |-> getStats(tally),
                    seen |-> getStats(tally)]
    /\ UNCHANGED tally

NextStats ==
    \/ StatsCounted
    \/ StatsReset
    \/ GetStats

(***************************************************************************)
(* migrateToHierarchicalStructure (directoryStructure).  The files of the  *)
(* source directory were written by the flat saveContractData, under the   *)
(* name generateFileName gives the identifier.                             *)
(***************************************************************************)
\* the identifiers with a file in the source directory; the empty text
\* stands for a file inspect_.json that no identifier has
FlatAddresses == { <<48, 58, 97, 48>>, <<45, 49, 58, 97, 48>>, <<>> }

\* the source directories of the model: up to MaxFlat files
FlatDirectories == { d \in SUBSET FlatAddresses : Cardinality(d) <= MaxFlat }

\* targetDir
TargetDirectory == DataDirectory

\* String.prototype.endsWith
EndsWith(str, suffix) ==
    Len(str) >= Len(suffix) /\ SubSeq(str, Len(str) - Len(suffix) + 1, Len(str)) = suffix

\* files.filter(f => f.startsWith('inspect_') && f.endsWith('.json'))
IsInspectFile(fileName) ==
    StartsWith(fileName, InspectPrefix) /\ EndsWith(fileName, JsonSuffix)

\* fileName.match(/^inspect_(.+)\.json$/): the group, or null without a match
MatchedAddress(fileName) ==
    IF IsInspectFile(fileName) /\ Len(fileName) > Len(InspectPrefix) + Len(JsonSuffix)
    THEN SubSeq(fileName, Len(InspectPrefix) + 1, Len(fileName) - Len(JsonSuffix))
    ELSE Null

\* addressMatch[1].replace(/_/g, '')
WithoutUnderscores(str) == SelectSeq(str, LAMBDA c : c /= 95)

\* the address the migration takes a file for
AddressOfFile(fileName) == WithoutUnderscores(MatchedAddress(fileName))

\* the number of files as an expected file count
CountOfFiles(fs) == <<Cardinality(fs)>>

\* customDirectoryLevels || calculateOptimalDirectoryLevels(inspectFiles.length)
MigrationLevels(customDirectoryLevels, inspectFiles) ==
    IF customDirectoryLevels /= NoLevels THEN customDirectoryLevels
    ELSE calculateOptimalDirectoryLevels(CountOfFiles(inspectFiles))

NoMigration ==
    [stage |-> "none", listed |-> FALSE, found |-> {}, todo |-> {}, levels |-> NoLevels,
     migrated |-> 0, errors |-> 0]

NoCheck == [op |-> "none", address |-> <<>>, result |-> FALSE]

InitMigration ==
    /\ flat = {}
    /\ tree = {}
    /\ mig = NoMigration
    /\ moved = {}
    /\ mcheck = NoCheck

\* a flat data directory is there to migrate
FlatDirectoryGiven ==
    /\ UNCHANGED exceptMigration
    /\ mig.stage = "none"
    /\ flat = {}
    /\ flat' \in FlatDirectories \ {{}}
    /\ UNCHANGED <<md5, tree, mig, moved, mcheck>>

\* migrateToHierarchicalStructure is called: readdir lists the source
\* directory, the inspect files are kept and the depth is fixed
MigrationStarts ==
    /\ UNCHANGED exceptMigration
    /\ mig.stage = "none"
    /\ flat /= {}
    /\ \E customDirectoryLevels \in StoredDepths :
          LET inspectFiles == { a \in flat : IsInspectFile(generateFileName(a)) }
          IN  mig' = [stage |-> "moving", listed |-> TRUE, found |-> inspectFiles,
                      todo |-> inspectFiles,
                      levels |-> MigrationLevels(customDirectoryLevels, inspectFiles),
                      migrated |-> 0, errors |-> 0]
    /\ UNCHANGED <<md5, flat, tree, moved, mcheck>>

\* readdir throws: the outer catch records one error and the result returns
MigrationCannotList ==
    /\ UNCHANGED exceptMigration
    /\ mig.stage = "none"
    /\ flat /= {}
    /\ mig' = [NoMigration EXCEPT !.stage = "done", !.errors = 1]
    /\ UNCHANGED <<md5, flat, tree, moved, mcheck>>

\* one file of a batch: without a match an error is recorded; otherwise the
\* address is taken from the name, prepareFilePath gives the target path and
\* fs.rename moves the file, or throws and an error is recorded
MigratesFile ==
    /\ UNCHANGED exceptMigration
    /\ mig.stage = "moving"
    /\ \E a \in mig.todo, renamed \in BOOLEAN, h \in Digests :
          LET fileName == generateFileName(a)
              address == AddressOfFile(fileName)
              targetPath == prepareFilePath(address, TargetDirectory, mig.levels, h)
          IN  IF MatchedAddress(fileName) = Null
              THEN /\ mig' = [mig EXCEPT !.todo = @ \ {a}, !.errors = @ + 1]
                   /\ UNCHANGED <<md5, flat, tree, moved>>
              ELSE /\ Hashed(address, h)
                   /\ IF renamed
                      THEN /\ mig' = [mig EXCEPT !.todo = @ \ {a}, !.migrated = @ + 1]
                           /\ flat' = flat \ {a}
                           /\ tree' = tree \cup {targetPath}
                           /\ moved' = moved \cup {a}
                      ELSE /\ mig' = [mig EXCEPT !.todo = @ \ {a}, !.errors = @ + 1]
                           /\ UNCHANGED <<flat, tree, moved>>
    /\ UNCHANGED mcheck

\* every batch is done: the result is returned
MigrationReturns ==
    /\ UNCHANGED exceptMigration
    /\ mig.stage = "moving"
    /\ mig.todo = {}
    /\ mig' = [mig EXCEPT !.stage = "done"]
    /\ UNCHANGED <<md5, flat, tree, moved, mcheck>>

\* contractFileExists(targetDir, rawAddress, optimalLevels) for an
\* identifier whose file was moved
ExistsAfterMigration ==
    /\ UNCHANGED exceptMigration
    /\ mig.stage = "done"
    /\ \E a \in moved, h \in Digests :
          /\ Hashed(a, h)
          /\ mcheck' = [op |-> "exists", address |-> a,
                        result |-> getFilePath(a, TargetDirectory, mig.levels, h) \in tree]
    /\ UNCHANGED <<flat, tree, mig, moved>>

NextMigration ==
    \/ FlatDirectoryGiven
    \/ MigrationStarts
    \/ MigrationCannotList
    \/ MigratesFile
    \/ MigrationReturns
    \/ ExistsAfterMigration

(***************************************************************************)
(* Specifications                                                          *)
(***************************************************************************)
vars == <<ivars, rvars, lvars, svars, fvars, bvars, mvars, cvars, kvars, tvars, gvars>>

Init ==
    /\ InitIndexer /\ InitRetry /\ InitLayout /\ InitStore /\ InitFilter
    /\ InitBatch /\ InitModes /\ InitConfig /\ InitCursor /\ InitStats /\ InitMigration

\* the indexer without process kills
Spec == Init /\ [][Next]_vars

\* the indexer in an environment that may kill the process at any point
SpecCrash == Init /\ [][NextCrash]_vars

\* the retry loop of one client call
SpecRetry == Init /\ [][NextRetry]_vars

\* calls of calculateOptimalDirectoryLevels
SpecLevels == Init /\ [][NextLevels]_vars

\* calls of getFilePath and, through it, of getDirectoryPath
SpecLayout == Init /\ [][NextLayout]_vars

\* the store calls of the IndexerService
SpecStore == Init /\ [][NextStore]_vars

\* the store functions called with any root and depth
SpecStoreAt == Init /\ [][NextStoreAt]_vars

\* the address filter
SpecFilter == Init /\ [][NextFilter]_vars

\* runIteration with the results of its processAccount calls
SpecBatch == Init /\ [][NextBatch]_vars

\* the process with its run modes and the shutdown signals
SpecModes == Init /\ [][NextModes]_vars

\* the start of the process: the environment, loadConfig, the IndexerService
SpecConfig == Init /\ [][NextConfig]_vars

\* readCursor and saveCursor on the cursor file
SpecCursor == Init /\ [][NextCursor]_vars

\* the statistics of the address filter and a snapshot of them
SpecStats == Init /\ [][NextStats]_vars

\* a migration of a flat data directory, and the existence checks after it
SpecMigration == Init /\ [][NextMigration]_vars

(***************************************************************************)
(* Properties of the orchestrator                                          *)
(***************************************************************************)
\* the tasks of the page that were started and have not returned a result
InFlight == { i \in DOMAIN tasks : tasks[i] \notin Terminal \cup {"queued"} }

\* saveCursor is running
SavingCursor == pc \in {"saveOpen", "saveWrite"}

\* C1: while saveCursor runs (from its start to its end), every identifier of
\* the page has a terminal result: no task of the page is queued, checking,
\* fetching or writing.
C1_CursorAfterPage ==
    SavingCursor =>
        /\ Len(tasks) = Len(nodes)
        /\ \A i \in 1..Len(nodes) : tasks[i] \in Terminal

\* C1 witness: saveCursor starts for a full page processed with concurrency
\* above 1, one identifier saved and another failed
C1_Witness ==
    /\ pc = "saveOpen"
    /\ limit > 1
    /\ Len(nodes) = MaxPageLen
    /\ \E i, j \in DOMAIN tasks : tasks[i] = "saved" /\ tasks[j] = "failed"

\* C2: after a kill that fell between the return of fetchAccounts and the end
\* of saveCursor, the next runIteration requests the page with the cursor the
\* killed iteration used and makes no inspectContract call for an identifier
\* whose file was written before the kill.
C2_ResumeSamePage ==
    (crash.inWindow /\ pc \in {"fetch", "batch", "saveOpen", "saveWrite"}) =>
        /\ reqCursor = crash.cursor
        /\ \A i \in DOMAIN tasks :
              nodes[i] \in crash.written => tasks[i] \notin {"inspect", "write", "saved"}

\* C3: once the process has stopped (killed or not), every contract file that
\* contractFileExists reports holds the complete serialized snapshot.
C3_AtomicStoreWrite ==
    pc = "stopped" =>
        \A a \in Addresses : PathExists(store[a]) => store[a].data = Serialized(a)

\* C4: after a kill during saveCursor, readCursor returns the cursor persisted
\* before that saveCursor or the cursor it was saving, in full.
C4_CursorReplacedWhole ==
    (pc = "stopped" /\ crash.inWindow /\ crash.saving /= Null) =>
        ReadCursor(cursorFile) \in {crash.cursor, crash.saving}

\* the tasks of identifier a that have opened its file for writing
Savers(ts, ns, a) == { i \in DOMAIN ts : ns[i] = a /\ ts[i] \in {"write", "saved"} }

\* C5: within a run at most one task writes the snapshot of an identifier, also
\* when the page lists the identifier twice, and a snapshot that is on disk in
\* full is never written again.
C5_SnapshotWrittenOnce ==
    [][ /\ \A a \in Addresses : Cardinality(Savers(tasks', nodes', a)) <= 1
        /\ \A a \in Written : store'[a] = store[a] ]_vars

\* C6: the number of tasks started and not finished never exceeds
\* maxConcurrentRequests.
C6_ConcurrencyBound == Cardinality(InFlight) <= limit

\* C6 witness: the limit is reached while a further task waits in the queue,
\* and every task in flight is inside inspectContract
C6_Witness ==
    /\ Cardinality(InFlight) = limit
    /\ \A i \in InFlight : tasks[i] = "inspect"
    /\ \E i \in DOMAIN tasks : tasks[i] = "queued"

\* C7: runComplete starts no further iteration once the read-back of the cursor
\* is null or the iteration reported hasNextPage = false.
C7_StopsWhenExhausted ==
    [][ (/\ pc = "returned"
         /\ mode = "complete"
         /\ (ReadCursor(cursorFile) = Null \/ ~iterResult.hasNextPage))
        => pc' = "stopped" ]_vars

(***************************************************************************)
(* Properties of the retry policy                                          *)
(***************************************************************************)
\* a failed attempt has been classified by handleError
Classified == rpc \in {"sleep", "thrown"}

\* the last failure is an HTTP 429 whose Retry-After header parses to a number
RateLimitedWithValue ==
    /\ lastErr.kind = "status"
    /\ lastErr.status = 429
    /\ Truthy(lastErr.retryAfter)
    /\ ParseInt(lastErr.retryAfter) /= NaN

\* the last failure is an HTTP 429 without a numeric Retry-After header
RateLimitedNoValue ==
    /\ lastErr.kind = "status"
    /\ lastErr.status = 429
    /\ ~(Truthy(lastErr.retryAfter) /\ ParseInt(lastErr.retryAfter) /= NaN)

\* the last failure is a network failure or an error status other than 429
Transient ==
    \/ lastErr.kind = "network"
    \/ lastErr.kind = "status" /\ lastErr.status /= 429

\* attempts remain after the one that failed
AttemptsRemain == attempt < maxRetries + 1

\* C8: when a client sleeps after a 429 with a numeric Retry-After of s seconds,
\* the delay before the next attempt is min(s * 1000, 60000) ms, in both clients.
C8_RetryAfterCapped ==
    (rpc = "sleep" /\ RateLimitedWithValue) =>
        decision.delay = Min(ParseInt(lastErr.retryAfter) * 1000, 60000)

\* C9: after a Transient failure, or a 429 without a retry-after value, with
\* attempts remaining, the client retries and the delay before the next attempt
\* is min(retryDelayMs * 2^attempt, 60000) ms.
C9_ExponentialBackoff ==
    (Classified /\ AttemptsRemain /\ (Transient \/ RateLimitedNoValue)) =>
        /\ rpc = "sleep"
        /\ decision.delay = Min(retryDelayMs * 2^attempt, 60000)

\* the client that is not c
OtherClient(c) == IF c = "rest" THEN "gql" ELSE "rest"

\* C10: for the same failure and attempt number the other client takes the
\* decision this client took (retry or not, and the delay), and a network
\* failure with attempts remaining is retried.
C10_SamePolicy ==
    Classified =>
        /\ decision = HandleError(OtherClient(client), lastErr, attempt, retryDelayMs)
        /\ (lastErr.kind = "network" /\ AttemptsRemain => rpc = "sleep")

\* C11: a call makes at most maxRetries + 1 attempts whatever the failures;
\* when it throws after a retryable failure it has made exactly maxRetries + 1
\* attempts; what it throws is the error of the attempt made last; and after a
\* successful attempt the call is over, no attempt follows.
C11_AttemptsBounded ==
    [][ /\ (rpc' /= "idle" => attempt' \in 1..(maxRetries' + 1))
        /\ (rpc' = "thrown" /\ decision'.shouldRetry => attempt' = maxRetries' + 1)
        /\ (rpc' = "thrown" /\ rpc = "request" =>
               /\ lastErr' \in Failures
               /\ decision' = HandleError(client, lastErr', attempt, retryDelayMs))
        /\ (rpc = "returned" => rpc' = "idle" /\ attempt' = 0) ]_vars

\* C11 witness: a call with the largest maxRetries throws after its last
\* attempt failed with a retryable failure
C11_Witness ==
    /\ rpc = "thrown"
    /\ maxRetries = MaxRetriesBound
    /\ attempt = maxRetries + 1
    /\ decision.shouldRetry

\* the last failure is neither a network failure nor an HTTP error status
Unclassified == lastErr.kind = "other"

\* C12: after an Unclassified failure the client throws at once: handleError
\* says shouldRetry = false with delay 0 and the call neither sleeps nor makes
\* another attempt, whatever the attempt number and maxRetries.
C12_UnclassifiedNotRetried ==
    Unclassified =>
        /\ rpc = "thrown"
        /\ ~decision.shouldRetry
        /\ decision.delay = 0

\* C12 witness: an Unclassified failure on a retry (not the first attempt)
\* while attempts remain
C12_Witness ==
    /\ Unclassified
    /\ attempt > 1
    /\ AttemptsRemain

\* the delay handleError of the calling client returns for the last failure
\* when it is met on attempt n
DelayAt(n) == HandleError(client, lastErr, n, retryDelayMs).delay

\* C13: for a 429 without a numeric Retry-After value the delay never exceeds
\* 60000 ms and does not decrease with the attempt number: it is at least the
\* delay of the attempt before and at most the delay of the attempt after.
C13_BackoffMonotone ==
    (Classified /\ RateLimitedNoValue) =>
        /\ decision.delay = DelayAt(attempt)
        /\ decision.delay <= 60000
        /\ DelayAt(attempt + 1) >= decision.delay
        /\ (attempt > 1 => DelayAt(attempt - 1) <= decision.delay)

\* C13 witness: a 429 with a non-numeric Retry-After header on a retry, the
\* exponential term being above the cap
C13_Witness ==
    /\ Classified
    /\ RateLimitedNoValue
    /\ lastErr.retryAfter /= Null
    /\ attempt > 1
    /\ retryDelayMs * 2^attempt > 60000
    /\ retryDelayMs * 2^(attempt - 1) > 60000

\* the header value "2"
RetryAfterTwo == <<50>>

\* inspectContract met HTTP 429 with Retry-After: 2 on its last failed attempt
Detail429Two ==
    /\ client = "rest"
    /\ lastErr.kind = "status"
    /\ lastErr.status = 429
    /\ lastErr.retryAfter = RetryAfterTwo

\* C14: when an attempt of inspectContract fails with HTTP 429 and
\* Retry-After: 2 while attempts remain, the client sleeps with a delay of
\* 2000 ms, the step after the sleep is the next attempt, and inspectContract
\* throws a 429 only on attempt maxRetries + 1.
C14_RetryAfterTwoSeconds ==
    [][ /\ (Classified' /\ Detail429Two' /\ AttemptsRemain') =>
               (rpc' = "sleep" /\ decision'.delay = 2000)
        /\ (rpc = "sleep" /\ Detail429Two) =>
               (rpc' = "request" /\ attempt' = attempt + 1)
        /\ (rpc' = "thrown" /\ client' = "rest" /\ lastErr'.status = 429) =>
               attempt' = maxRetries' + 1 ]_vars

\* C14 witness: inspectContract makes its second attempt after the sleep of
\* 2000 ms that followed a 429 with Retry-After: 2
C14_Witness ==
    /\ rpc = "request"
    /\ attempt = 2
    /\ Detail429Two
    /\ decision.shouldRetry
    /\ decision.delay = 2000

(***************************************************************************)
(* Properties of the directory layout                                      *)
(***************************************************************************)
\* depth d keeps the average number of files per leaf directory within the
\* limit: n / 256^d <= 1000
DepthSuffices(n, d) == ~QuotientAbove(n, d, 1000)

\* the smallest depth in 2..6 that suffices, 6 when none does
SmallestDepth(n) ==
    IF \E d \in 2..6 : DepthSuffices(n, d)
    THEN CHOOSE d \in 2..6 : DepthSuffices(n, d) /\ \A e \in 2..(d - 1) : ~DepthSuffices(n, e)
    ELSE 6

\* C15: calculateOptimalDirectoryLevels(n) returns the smallest depth d in 2..6
\* with n / 256^d <= 1000, and 6 when no depth in 2..6 satisfies that.
C15_OptimalDepth ==
    call.op = "levels" => call.levels = SmallestDepth(call.count)

\* the digest, under the hash function hashes, of the identifier with a leading
\* EQ, UQ or kQ removed
DigestOf(hashes, address) ==
    LET rest == IF Len(address) >= 2 /\ SubSeq(address, 1, 2) \in { <<69, 81>>, <<85, 81>>, <<107, 81>> }
                THEN SubSeq(address, 3, Len(address)) ELSE address
    IN  hashes[rest]

\* the base directory as path.join writes it
Normalized(baseDir) == SelectSeq(baseDir, LAMBDA seg : seg \notin {<<>>, <<46>>})

\* C17: the digest of an input never changes, and for every depth d in 2..6
\* getDirectoryPath returns the base directory followed by exactly d segments,
\* segment i (from 0) being the hex characters 2i and 2i+1 of the digest of the
\* identifier without its EQ/UQ/kQ prefix: the path is a function of
\* (identifier, base directory, depth) alone.
C17_DirectoryPath ==
    [][ /\ \A x \in DOMAIN md5 : x \in DOMAIN md5' /\ md5'[x] = md5[x]
        /\ (call'.op = "path" /\ call'.directoryLevels \in 2..6) =>
              LET h == DigestOf(md5', call'.address)
                  d == call'.directoryLevels
                  base == Normalized(call'.baseDir)
              IN  /\ Len(call'.dirPath) = Len(base) + d
                  /\ SubSeq(call'.dirPath, 1, Len(base)) = base
                  /\ \A i \in 0..(d - 1) :
                        call'.dirPath[Len(base) + i + 1] = <<h[2 * i + 1], h[2 * i + 2]>> ]_vars

\* C17 witness: getDirectoryPath returned a path of depth 6 under ./data for a
\* prefixed identifier whose clean address had been hashed before
C17_Witness ==
    /\ call.op = "path"
    /\ call.directoryLevels = 6
    /\ Len(call.baseDir) = 2
    /\ Len(call.dirPath) = 7
    /\ call.address \notin RawAddresses
    /\ Cardinality(DOMAIN md5) > 1

\* the identifiers other than a that generateHash has hashed
KnownOthers(a) == { b \in LayoutAddresses : b /= a /\ CleanAddress(b) \in DOMAIN md5 }

\* C18: under the same base directory and depth, getFilePath returns for every
\* other identifier (prefixed or not) a path different from the one it returned
\* for this identifier, and generateFileName gives the two different names.
C18_UniqueFilePath ==
    call.op = "path" =>
        \A b \in KnownOthers(call.address) :
            /\ getFilePath(b, call.baseDir, call.directoryLevels, md5[CleanAddress(b)])
                  /= call.filePath
            /\ generateFileName(b) /= generateFileName(call.address)

\* C18 witness: another identifier, with a different clean address, has the
\* same digest and so the same directory as the identifier of the call
C18_Witness ==
    /\ call.op = "path"
    /\ \E b \in KnownOthers(call.address) :
          /\ CleanAddress(b) /= CleanAddress(call.address)
          /\ getDirectoryPath(b, call.baseDir, call.directoryLevels, md5[CleanAddress(b)])
                = call.dirPath

(***************************************************************************)
(* Properties of the hierarchical store                                    *)
(***************************************************************************)
\* the depth of the run: no override can be configured (loadConfig reads
\* none), so it is what determineOptimalDirectoryLevels derives from the scan
\* of the data directory at the start of the run
DepthOfRun == determineOptimalDirectoryLevels(TRUE, totalFiles)

\* C16: every contractFileExists and saveContractData call of a run uses the
\* depth of the run, the one derived from the directory-distribution scan.
C16_OneDepthPerRun ==
    scall.op \in {"exists", "save"} => scall.levels = DepthOfRun

\* C19: a contractFileExists call leaves the directories and the files under
\* the data directory as they were, whether the file exists or not.
C19_ExistsHasNoEffect ==
    [][ scall'.op = "exists" => (dirs' = dirs /\ files' = files) ]_vars

\* C19 witness: contractFileExists returned false for an identifier whose
\* directory does not exist, in a store that holds files
C19_Witness ==
    /\ scall.op = "exists"
    /\ ~scall.result
    /\ SubSeq(scall.filePath, 1, Len(scall.filePath) - 1) \notin dirs
    /\ files /= {}

(***************************************************************************)
(* Properties of the address filter                                        *)
(***************************************************************************)
\* shouldProcessAddress has returned a result
Filtered == fresult /= NoFilterResult

\* the hash of an address of the system shard -1, the empty text for any other
SystemShardHash(a) ==
    IF StartsWith(a, MasterchainPrefix) THEN SubSeq(a, 4, Len(a)) ELSE <<>>

\* the reason of the earliest rule that matches, the rules taken in the order
\* reserved shard, system-shard anomalies (length, zero density, structural
\* pattern), minimum length, custom patterns
EarliestRule(a, ps) ==
    LET system == StartsWith(a, MasterchainPrefix)
        hash == SystemShardHash(a)
    IN  IF StartsWith(a, ReservedShardPrefix) THEN Reason("reserved_shard")
        ELSE IF system /\ InvalidLength(hash) THEN Reason("invalid_length")
        ELSE IF (system /\ MasterchainZeroHeavy(hash)) \/ isZeroHeavyAddress(a)
             THEN Reason("zero_heavy")
        ELSE IF system /\ (SystemPattern(hash) \/ FewUniqueChunks(hash))
             THEN Reason("system_pattern")
        ELSE IF isShortAddress(a) THEN Reason("too_short")
        ELSE FirstMatching(a, ps)

\* C20: the reason shouldProcessAddress returns is the reason of the earliest
\* matching rule, one of reserved_shard, invalid_length, zero_heavy,
\* system_pattern, too_short and custom_pattern:<pattern>, and the address is
\* kept exactly when no rule matches.
C20_FirstRuleDecides ==
    Filtered =>
        /\ fresult.skipReason = EarliestRule(fresult.address, patterns)
        /\ fresult.skipReason.tag \in
              {"none", "reserved_shard", "invalid_length", "zero_heavy",
               "system_pattern", "too_short", "custom_pattern"}
        /\ fresult.shouldProcess = (fresult.skipReason = NoReason)

\* a built-in rule of the filter skips the address
BuiltInSkips(a) ==
    isMasterchainSystemAddress(a) \/ isZeroHeavyAddress(a) \/ isShortAddress(a)

\* the positions of the valid custom patterns that match the address
ValidMatching(a, ps) ==
    { i \in DOMAIN ps : ~InvalidRegExp(ps[i]) /\ RegExpTest(ps[i], a) }

\* C21: shouldProcessAddress returns a result whatever the custom patterns
\* are.  An invalid pattern is never the reason of a skip; the patterns after
\* it are still tried, so an address no built-in rule catches is skipped for
\* the first valid pattern that matches it and is kept when none does.
C21_InvalidPatternFailsOpen ==
    Filtered =>
        LET a == fresult.address
            matching == ValidMatching(a, patterns)
        IN  /\ fresult.skipReason.tag = "custom_pattern" =>
                   ~InvalidRegExp(fresult.skipReason.pattern)
            /\ fresult.shouldProcess = (~BuiltInSkips(a) /\ matching = {})
            /\ (~BuiltInSkips(a) /\ matching /= {}) =>
                   \E i \in matching :
                       /\ \A j \in matching : i <= j
                       /\ fresult.skipReason = CustomReason(patterns[i])

\* an invalid pattern stands first in the list of custom patterns
InvalidFirst == patterns /= <<>> /\ InvalidRegExp(Head(patterns))

\* C21 witness: with an invalid pattern first in the list, one address was
\* skipped for the valid pattern behind it
C21_Witness ==
    /\ Filtered
    /\ InvalidFirst
    /\ Len(patterns) > 1
    /\ fresult.skipReason = CustomReason(patterns[2])

(***************************************************************************)
(* Properties of one runIteration                                          *)
(***************************************************************************)
\* the calls that reach the network or the store
SideCalls == {"contractFileExists", "inspectContract", "saveContractData"}

\* the jobs that have been started
Started == { i \in DOMAIN jobs : jobs[i].at /= "queued" }

\* C22: a processAccount call for an identifier the filter skips returns a
\* skipped result at once and makes no contractFileExists, inspectContract or
\* saveContractData call; and for every identifier the first call made is
\* the one to the filter.
C22_FilteredMakesNoCalls ==
    \A i \in Started :
        /\ Head(jobs[i].calls) = "shouldProcessAddress"
        /\ ~ShouldProcess(accounts[i]) =>
              /\ jobs[i].at = "skipped"
              /\ IsSkipped(jobs[i].result)
              /\ jobs[i].result.address = accounts[i]
              /\ \A k \in DOMAIN jobs[i].calls : jobs[i].calls[k] \notin SideCalls

\* C22 witness: in one page, a filtered identifier has its skipped result
\* while the job of another identifier is awaiting inspectContract
C22_Witness ==
    /\ stage = "batch"
    /\ \E i, j \in Started :
          /\ ~ShouldProcess(accounts[i])
          /\ jobs[i].at = "skipped"
          /\ jobs[j].at = "inspect"

\* job i returns a failed result in this step
FailsNow(i) ==
    /\ i \in DOMAIN jobs
    /\ i \in DOMAIN jobs'
    /\ jobs[i].at /= "failed"
    /\ jobs'[i].at = "failed"

\* C23: when the processing of one identifier fails, that identifier gets a
\* failed result and nothing else changes: the batch goes on, the other jobs
\* keep their state; the batch ends only when every identifier of the page has
\* a terminal result, and then runIteration goes on to saveCursor or returns;
\* when it returns for a page with identifiers, the summary covers the whole
\* page and the cursor file holds the endCursor of the page, if it had one.
C23_FailureDoesNotAbort ==
    [][ /\ \A i \in 1..MaxBatch :
              FailsNow(i) =>
                  /\ stage' = "batch"
                  /\ IsFailed(jobs'[i].result)
                  /\ jobs'[i].result.address = accounts[i]
                  /\ \A j \in DOMAIN jobs \ {i} : jobs'[j] = jobs[j]
                  /\ cursorTxt' = cursorTxt
        /\ (stage = "batch" /\ stage' /= "batch") =>
              /\ stage' \in {"saveCursor", "returned"}
              /\ \A i \in DOMAIN accounts : jobs[i].at \in Terminal
        /\ (stage' = "returned" /\ accounts' /= <<>>) =>
              /\ outcome'.kind = "returned"
              /\ outcome'.summary.total = Len(accounts')
              /\ Truthy(reported'.endCursor) =>
                     ReadCursor(cursorTxt') = reported'.endCursor
      ]_vars

\* C23 witness: runIteration has returned for a full page in which one
\* identifier failed and another was saved, and the cursor was persisted
C23_Witness ==
    /\ stage = "returned"
    /\ Len(accounts) = MaxBatch
    /\ \E i, j \in DOMAIN jobs : jobs[i].at = "failed" /\ jobs[j].at = "saved"
    /\ Truthy(reported.endCursor)
    /\ ReadCursor(cursorTxt) = reported.endCursor
    /\ outcome.summary.failed = 1

\* runIteration threw because fetchAccounts failed
FetchFailed == stage = "threw" /\ outcome.message = "GraphQL request failed"

\* C24: the steps of a runIteration up to a failed page fetch change neither
\* the cursor file nor the contract files, and at the failure runIteration
\* throws without having created a job: no inspectContract call was made.
C24_FetchFailureChangesNothing ==
    [][ /\ (stage = "idle" /\ stage' = "fetch") =>
               (cursorTxt' = cursorTxt /\ contracts' = contracts /\ jobs' = <<>>)
        /\ (stage = "fetch" /\ stage' = "threw") =>
               /\ outcome'.kind = "threw"
               /\ cursorTxt' = cursorTxt
               /\ contracts' = contracts
               /\ jobs' = <<>>
      ]_vars

\* C24 witness: the page fetch failed in a run that already had a cursor and
\* contract files on disk
C24_Witness ==
    /\ FetchFailed
    /\ Truthy(ReadCursor(cursorTxt))
    /\ contracts /= {}

\* number of jobs of the page that ended in the state
Ended(state) == Cardinality({ i \in DOMAIN jobs : jobs[i].at = state })

\* runIteration has returned an IterationResult
HasReturned == stage = "returned" /\ outcome.kind = "returned"

\* C26: when runIteration returns, every identifier of the page has exactly
\* one result, its own, and the summary counts partition the results: total
\* is the number of identifiers of the page and equals successful + failed +
\* skipped, each count being the number of identifiers with that outcome.
C26_SummaryPartitions ==
    HasReturned =>
        LET summary == outcome.summary
        IN  /\ summary.total = Len(accounts)
            /\ summary.total = summary.successful + summary.failed + summary.skipped
            /\ accounts /= <<>> =>
                  /\ DOMAIN jobs = DOMAIN accounts
                  /\ \A i \in DOMAIN jobs :
                        /\ jobs[i].at \in Terminal
                        /\ jobs[i].result.address = accounts[i]
                  /\ summary.successful = Ended("saved")
                  /\ summary.failed = Ended("failed")
                  /\ summary.skipped = Ended("skipped")

\* C26 witness: runIteration returned for a full page processed with
\* concurrency above 1, with a skipped and a failed outcome in the summary
C26_Witness ==
    /\ HasReturned
    /\ slots > 1
    /\ Len(accounts) = MaxBatch
    /\ outcome.summary.skipped > 0
    /\ outcome.summary.failed > 0

\* the positions of the entries of the error list that carry the identifier
\* of job i
EntriesFor(i) ==
    { k \in DOMAIN outcome.summary.errors :
          outcome.summary.errors[k].address = accounts[i] }

\* the failed jobs of the page for the same identifier as job i
FailedFor(i) ==
    { j \in DOMAIN jobs : jobs[j].at = "failed" /\ accounts[j] = accounts[i] }

EmptyPageFetched == stage = "fetch" /\ stage' = "returned" /\ accounts' = <<>>

\* C28: when the fetched page has no identifiers, runIteration returns at
\* once with a summary whose total, successful, failed and skipped are 0 and
\* whose error list is empty; no job is created, so no inspectContract and no
\* saveContractData call is made, and the cursor file and the contract files
\* stay as they were until the caller has the result.
C28_EmptyPage ==
    [][ /\ EmptyPageFetched =>
              /\ outcome'.kind = "returned"
              /\ outcome'.summary.total = 0
              /\ outcome'.summary.successful = 0
              /\ outcome'.summary.failed = 0
              /\ outcome'.summary.skipped = 0
              /\ outcome'.summary.errors = <<>>
              /\ jobs' = <<>>
              /\ cursorTxt' = cursorTxt
              /\ contracts' = contracts
        /\ (stage = "returned" /\ accounts = <<>>) =>
              (cursorTxt' = cursorTxt /\ contracts' = contracts)
      ]_vars

\* C28 witness: runIteration returned for a page without identifiers for
\* which the source gave an endCursor, and there is no cursor file
C28_Witness ==
    /\ HasReturned
    /\ accounts = <<>>
    /\ Truthy(reported.endCursor)
    /\ ~PathExists(cursorTxt)
    /\ contracts /= {}

\* C29: the hasNextPage and the endCursor of the IterationResult are the ones
\* of the pageInfo of the fetched page, for a page with identifiers and for a
\* page without.
C29_PageInfoReturned ==
    HasReturned =>
        /\ outcome.hasNextPage = reported.hasNextPage
        /\ outcome.endCursor = reported.endCursor

(***************************************************************************)
(* Properties of the run modes                                             *)
(***************************************************************************)
\* the driver calls runIteration in this step
StartsIteration == proc /= "iterating" /\ proc' = "iterating"

\* C25: once a saveCursor has failed in an iteration, the process starts no
\* further iteration, in runComplete, in infinite mode and in timed mode.
C25_CursorFailureStopsRun ==
    [][ cursorLost => ~StartsIteration ]_vars

\* C30: once a shutdown signal (SIGINT or SIGTERM) has been received, the
\* process starts no runIteration, in complete, infinite and timed mode; the
\* iteration in progress may go on until the grace period ends.
C30_NoIterationAfterSignal ==
    [][ isShuttingDown => ~StartsIteration ]_vars

(***************************************************************************)
(* Properties of loadConfig                                                *)
(***************************************************************************)
\* the number is an integer from lo to hi
IntegerWithin(x, lo, hi) == ~x.nan /\ x.value \in lo..hi

\* the text is a decimal integer: an optional minus sign and digits only
IsIntegerText(s) ==
    LET ds == IF s /= <<>> /\ Head(s) = 45 THEN Tail(s) ELSE s
    IN  ds /= <<>> /\ DigitRun(ds) = ds

\* the value set for the variable is the text of an integer the validation
\* of the variable allows
ValidValue(name, s) ==
    /\ IsIntegerText(s)
    /\ CASE name = "MAX_CONCURRENT_REQUESTS" -> IntegerWithin(ParseInteger(s), 1, 10)
         [] name = "ACCOUNTS_PER_PAGE" -> IntegerWithin(ParseInteger(s), 1, 1000)
         [] name = "MAX_RETRIES" -> IntegerWithin(ParseInteger(s), 0, 10)

\* C31: when loadConfig returned a configuration, maxConcurrentRequests is
\* an integer from 1 to 10, accountsPerPage an integer from 1 to 1000 and
\* maxRetries an integer from 0 to 10; and when an environment variable of
\* one of the three is set to any other value (a non-empty text that is not
\* an integer of the range, a non-numeric text included), loadConfig threw
\* and no IndexerService was constructed.
C31_OnlyValidConfigLoads ==
    /\ loaded.kind = "returned" =>
         /\ IntegerWithin(loaded.configuration.maxConcurrentRequests, 1, 10)
         /\ IntegerWithin(loaded.configuration.accountsPerPage, 1, 1000)
         /\ IntegerWithin(loaded.configuration.maxRetries, 0, 10)
    /\ loaded.kind /= "none" =>
         \A name \in EnvNames :
            Truthy(env[name]) /\ ~ValidValue(name, env[name]) =>
                loaded.kind = "threw" /\ ~indexer

(***************************************************************************)
(* Properties of the cursor file                                           *)
(***************************************************************************)
\* the file is absent, empty or holds white space only
NoCursorInFile ==
    ~cfile.exists \/ \A i \in DOMAIN cfile.data : cfile.data[i] \in WhiteSpace

\* C32: a runIteration that reads the cursor file after saveCursor(c) wrote it,
\* c not empty and without leading or trailing white space, reads c, whatever
\* the file held before the save; and when the file is absent, empty or holds
\* white space only, readCursor returns null and the page is requested with
\* a null cursor.
C32_CursorRoundTrip ==
    cop.op = "runIteration" =>
        /\ (Truthy(lastSaved) /\ Trim(lastSaved) = lastSaved) => cop.cursor = lastSaved
        /\ NoCursorInFile => cop.cursor = Null /\ cop.after = Null

\* C32 witness: a cursor with a character outside ASCII was saved and read
\* back, and requested as after
C32_Witness ==
    /\ cop.op = "runIteration"
    /\ Len(lastSaved) = MaxCursorLen
    /\ \E i \in DOMAIN lastSaved : lastSaved[i] = 233
    /\ cop.cursor = lastSaved
    /\ cop.after = lastSaved

\* C32 witness of the second part: the file holds white space only and the
\* first page is requested
C32_WitnessBlank ==
    /\ cop.op = "runIteration"
    /\ cfile.exists /\ cfile.data /= <<>> /\ NoCursorInFile
    /\ cop.after = Null

\* the calls of processAccount that reach the network or write
NetworkOrWrite == {"inspectContract", "saveContractData"}

\* job i makes none of these calls up to the next state
StaysLocal(i) ==
    \A k \in DOMAIN jobs'[i].calls : jobs'[i].calls[k] \notin NetworkOrWrite

\* contractFileExists of job i resolves in this step, for an identifier
\* whose file exists
ExistingFound(i) ==
    /\ i \in DOMAIN jobs
    /\ i \in DOMAIN jobs'
    /\ jobs[i].at = "exists"
    /\ jobs'[i].at /= "exists"
    /\ accounts[i] \in contracts

\* C33: when processAccount runs for an identifier that passes the filter
\* and whose file exists, it returns a skipped result, calls neither
\* inspectContract nor saveContractData and leaves the contract files as
\* they are; and when a page lists an identifier twice and its jobs run in
\* sequence (concurrency 1), once the first was saved the second is skipped
\* without reaching the network, with the one file of the identifier.
C33_ExistingIsSkipped ==
    /\ [][ \A i \in DOMAIN jobs :
             ExistingFound(i) =>
                /\ jobs'[i].at = "skipped"
                /\ IsSkipped(jobs'[i].result)
                /\ jobs'[i].result.address = accounts[i]
                /\ StaysLocal(i)
                /\ contracts' = contracts ]_vars
    /\ [](\A i, j \in DOMAIN jobs :
             ( /\ slots = 1
               /\ i < j
               /\ accounts[i] = accounts[j]
               /\ jobs[i].at = "saved"
               /\ jobs[j].at \notin {"queued", "exists"} ) =>
                /\ jobs[j].at = "skipped"
                /\ IsSkipped(jobs[j].result)
                /\ jobs[j].calls = <<"shouldProcessAddress", "contractFileExists">>
                /\ accounts[j] \in contracts)

\* C33 witness: a page lists one identifier twice, concurrency 1; the first
\* job saved it and the second was skipped
C33_Witness ==
    /\ slots = 1
    /\ Len(jobs) = 2
    /\ accounts[1] = accounts[2]
    /\ jobs[1].at = "saved"
    /\ jobs[2].at = "skipped"
    /\ jobs[2].calls = <<"shouldProcessAddress", "contractFileExists">>

(***************************************************************************)
(* Properties of the statistics of the address filter                      *)
(***************************************************************************)
RECURSIVE SumOf(_)
\* the sum of the counts of a per-reason map
SumOf(counts) ==
    IF DOMAIN counts = {} THEN 0
    ELSE LET r == CHOOSE x \in DOMAIN counts : TRUE
         IN  counts[r] + SumOf([x \in DOMAIN counts \ {r} |-> counts[x]])

\* C34: after any sequence of shouldProcessAddress and resetStats calls,
\* total = processed + skipped, skipped is the sum of the per-reason counts,
\* total is the number of shouldProcessAddress calls since the construction
\* or the last reset, and right after a reset (or the construction) every
\* counter is 0 and the per-reason map is empty.
C34_CountersConsistent ==
    /\ stats.total = stats.processed + stats.skipped
    /\ stats.skipped = SumOf(stats.skipReasons)
    /\ stats.total = fcalls
    /\ fcalls = 0 => stats = NoStats

\* C34 witness: addresses were kept and were skipped for two different
\* reasons since the last reset
C34_Witness ==
    /\ fcalls = MaxFilterCalls
    /\ stats.processed > 0
    /\ Cardinality(DOMAIN stats.skipReasons) = 2

\* C34 witness of the reset: resetStats ran after a call that skipped
C34_WitnessReset ==
    /\ fcalls = 0
    /\ fresult /= NoFilterResult
    /\ ~fresult.shouldProcess
    /\ stats = NoStats

\* C35: a snapshot that getStats returned keeps the values it was returned
\* with, the per-reason counts included, whatever shouldProcessAddress and
\* resetStats calls follow.
C35_SnapshotIsPointInTime ==
    snapshot.taken => snapshot.seen = snapshot.returned

\* runIteration returns an IterationResult for a page with nodes in this step
ReturnsPage ==
    /\ stage /= "returned"
    /\ stage' = "returned"
    /\ accounts' /= <<>>

\* C36: when runIteration returns for a page with nodes whose endCursor is
\* not empty, the cursor file holds exactly that endCursor; no step taken
\* while the endCursor of the page is null or empty changes the cursor file;
\* and a step that changes the cursor file leaves in it the endCursor the
\* source returned for the page, never an empty file or another value.
C36_CursorIsLastEndCursor ==
    [][ /\ (ReturnsPage /\ Truthy(reported'.endCursor)) =>
               cursorTxt' = WriteAll(cursorTxt, reported'.endCursor)
        /\ ~Truthy(reported.endCursor) => cursorTxt' = cursorTxt
        /\ cursorTxt' /= cursorTxt =>
               cursorTxt' = WriteAll(cursorTxt, reported.endCursor)
      ]_vars

\* some job of the page ended as failed
SomeFailed(js) == \E i \in DOMAIN js : js[i].at = "failed"

\* C37: a page with failed identifiers is passed like any other: when
\* runIteration returns for it and the endCursor is not empty, the cursor
\* file holds the endCursor; the jobs of an iteration are those of the nodes
\* of the page it fetched, one each, so a failed identifier of an earlier
\* page is processed again only when the source lists it again; and a
\* contract file is only ever written by the job of a listed identifier.
C37_CursorPassesFailures ==
    [][ /\ (ReturnsPage /\ SomeFailed(jobs') /\ Truthy(reported'.endCursor)) =>
               ReadCursor(cursorTxt') = reported'.endCursor
        /\ (stage = "fetch" /\ stage' = "batch") =>
               jobs' = [i \in 1..Len(accounts') |-> QueuedJob]
        /\ \A a \in contracts' \ contracts :
               \E i \in DOMAIN jobs : accounts[i] = a /\ jobs[i].at = "write"
      ]_vars

\* C37 witness: every identifier of a full page failed, none has a file, and
\* runIteration returned with the endCursor of the page persisted
C37_Witness ==
    /\ HasReturned
    /\ Len(jobs) = MaxBatch
    /\ \A i \in DOMAIN jobs : jobs[i].at = "failed" /\ accounts[i] \notin contracts
    /\ Truthy(reported.endCursor)
    /\ ReadCursor(cursorTxt) = reported.endCursor
    /\ outcome.summary.failed = MaxBatch

\* the identifier was written with some root and depth
EverWritten(a) == \E w \in wrote : w[1] = a

\* C38: contractFileExists tests the path saveContractData writes for the
\* same identifier, root and depth: it returns true for an identifier that
\* was written with that root and depth, and false for an identifier that
\* was never written.
C38_ExistsAgreesWithSave ==
    /\ scall.op \in {"exists", "save"} =>
          LET h == md5[CleanAddress(scall.address)]
          IN  getFilePath(scall.address, scall.baseDir, scall.levels, h)
                = prepareFilePath(scall.address, scall.baseDir, scall.levels, h)
    /\ scall.op = "exists" =>
          /\ WrittenAs(scall.address, scall.baseDir, scall.levels) \in wrote => scall.result
          /\ ~EverWritten(scall.address) => ~scall.result

\* C38 witness: an identifier was written at depth 3 under ./data and
\* contractFileExists finds it at depth 3 under data
C38_Witness ==
    /\ scall.op = "exists"
    /\ scall.result
    /\ scall.levels = MIN_DIRECTORY_LEVELS + 1
    /\ scall.baseDir = <<DataSegment>>
    /\ wrote = {WrittenAs(scall.address, <<DotSegment, DataSegment>>, scall.levels)}

\* C38 witness of the negative case: contractFileExists returns false for
\* the prefixed spelling of an address whose unprefixed spelling was written
\* with the same root and depth
C38_WitnessNeverWritten ==
    /\ scall.op = "exists"
    /\ ~scall.result
    /\ ~EverWritten(scall.address)
    /\ \E w \in wrote :
          /\ CleanAddress(w[1]) = CleanAddress(scall.address)
          /\ w[2] = Normalize(scall.baseDir)
          /\ w[3] = scall.levels

(***************************************************************************)
(* Properties of the migration                                             *)
(***************************************************************************)
\* C39: after the migration moved the file of an identifier into the
\* hierarchical layout, contractFileExists for that identifier with the
\* target root and the depth of the migration is true; and when the
\* migration returns after listing the source directory, migrated plus the
\* number of recorded errors is the number of inspect files found.
C39_MigrationKeepsFindable ==
    /\ (mcheck.op = "exists" /\ mcheck.address \in moved) => mcheck.result
    /\ (mig.stage = "done" /\ mig.listed) =>
          mig.migrated + mig.errors = Cardinality(mig.found)

====
